---------------------------- MODULE Spec2Model ----------------------------
(***************************************************************************)
(* Model of the data-cleaning and validation pipeline of                   *)
(* france-property-insight:                                                *)
(*   fpi/data_pipeline/clean_data.py   clean_data                          *)
(*   fpi/data_pipeline/validation.py   PropertyData, validate_csv          *)
(*                                                                         *)
(* A DataFrame is a sequence of column names plus a sequence of rows; each *)
(* row keeps its pandas index label and one cell per column.  A cell is    *)
(* the value pandas hands to the program: NaN, +inf, a finite number or a  *)
(* text that is no number.  Texts are sequences of one-character strings.  *)
(***************************************************************************)
EXTENDS Integers, Sequences, FiniteSets, TLC

(***************************************************************************)
(* Bounds of the model.                                                    *)
(***************************************************************************)
\* Largest number of data rows of a raw file.
MaxRows == 3
\* Longest property_value text enumerated character by character.
MaxStrLen == 3
\* Largest number of data rows of a raw file in the runs on every header.
MaxRowsColumns == 2
\* Largest number of data rows of a raw file in the runs on every file name.
MaxRowsNames == 1
\* Largest number of data rows of a raw file in the runs on failing inputs.
MaxRowsInputs == 2

(***************************************************************************)
(* Cells.                                                                  *)
(***************************************************************************)
\* A finite number m / 10^e, with no trailing zero in its e decimals.
RECURSIVE Norm(_, _)
Norm(m, e) ==
    IF e > 0 /\ m % 10 = 0 THEN Norm(m \div 10, e - 1)
    ELSE [k |-> "num", m |-> m, e |-> e, s |-> <<>>]

NA == [k |-> "na", m |-> 0, e |-> 0, s |-> <<>>]
Inf == [k |-> "inf", m |-> 0, e |-> 0, s |-> <<>>]
Num(m, e) == Norm(m, e)
Whole(n) == Num(n, 0)
Str(s) == [k |-> "str", m |-> 0, e |-> 0, s |-> s]

Pow10(n) == 10 ^ n

(***************************************************************************)
(* Texts and Python's float(str).                                          *)
(***************************************************************************)
DigitSeq == <<"0", "1", "2", "3", "4", "5", "6", "7", "8", "9">>

Digits == {DigitSeq[j] : j \in 1..10}

DigitVal == [c \in Digits |-> (CHOOSE j \in 1..10 : DigitSeq[j] = c) - 1]

\* The number the first n digits of ds write.
RECURSIVE DigitsToInt(_, _)
DigitsToInt(ds, n) ==
    IF n = 0 THEN 0 ELSE 10 * DigitsToInt(ds, n - 1) + DigitVal[ds[n]]

\* str.replace(old, new) for one-character old and new.
Replace(s, old, new) == [j \in 1..Len(s) |-> IF s[j] = old THEN new ELSE s[j]]

\* Leading and trailing blanks removed, as float() and int() do first.
Strip(s) ==
    LET inked == {j \in 1..Len(s) : s[j] # " "}
    IN IF inked = {} THEN <<>>
       ELSE SubSeq(s, CHOOSE j \in inked : \A x \in inked : j <= x,
                      CHOOSE j \in inked : \A x \in inked : j >= x)

Err == [k |-> "err", m |-> 0, e |-> 0, s |-> <<>>]

\* Positions of the character c in s.
Positions(s, c) == {j \in 1..Len(s) : s[j] = c}

\* An unsigned decimal literal: digits with at most one point, one digit at least.
ParseUnsigned(s) ==
    LET dots == Positions(s, ".")
        ds   == SelectSeq(s, LAMBDA ch : ch # ".")
    IN IF Cardinality(dots) > 1 \/ Len(ds) = 0 \/ \E j \in 1..Len(ds) : ds[j] \notin Digits
       THEN Err
       ELSE LET p == IF dots = {} THEN Len(s) ELSE CHOOSE j \in dots : TRUE
            IN Num(DigitsToInt(ds, Len(ds)), Len(s) - p)

Neg(x) == IF x.k = "num" THEN Num(0 - x.m, x.e) ELSE x

InfText == <<"i", "n", "f">>

\* float(s) for a str s over digits, point, sign, blank and other characters:
\* the number, +inf for "inf", or Err where Python raises ValueError.
ParseFloat(s) ==
    LET t == Strip(s)
    IN IF Len(t) = 0 THEN Err
       ELSE IF t = InfText THEN Inf
       ELSE IF t[1] = "-" THEN Neg(ParseUnsigned(Tail(t)))
       ELSE IF t[1] = "+" THEN ParseUnsigned(Tail(t))
       ELSE ParseUnsigned(t)

\* int(s) of pydantic's lax int parsing for a str: blanks stripped, an optional
\* sign, digits only.
ParseInt(s) ==
    LET x == ParseFloat(s)
    IN IF x.k = "num" /\ Positions(s, ".") = {} THEN x ELSE Err

(***************************************************************************)
(* PropertyData: the fields, their constraints and their validators.       *)
(***************************************************************************)
\* The fields in declaration order, which is the order pydantic validates them in
\* and lists their errors in.
Fields ==
    << "property_value", "postal_code", "department_code", "town_code",
       "property_type_code", "building_area", "main_rooms", "land_area" >>

FieldSet == {Fields[j] : j \in 1..Len(Fields)}

\* Mutant of PostalCodeMin: five digits at least.
PostalCodeMin_FiveDigits == 9999 + 1

PostalCodeMin == 1000
PostalCodeMax == 99999
DepartmentCodeMin == 1
DepartmentCodeMax == 976
PropertyTypeCodeMin == 1
PropertyTypeCodeMax == 4

\* x > b, x >= b, x <= b for a finite number x and an integer b.
NumGt(x, b) == x.m > b * Pow10(x.e)
NumGe(x, b) == x.m >= b * Pow10(x.e)
NumLe(x, b) == x.m <= b * Pow10(x.e)

\* int(v) of a finite float: truncation towards zero.
Trunc(x) ==
    IF x.m >= 0 THEN Whole(x.m \div Pow10(x.e))
    ELSE Whole(0 - ((0 - x.m) \div Pow10(x.e)))

\* Mutant of convert_european_number: the commas are not replaced.
convert_european_number_NoReplace(v) == IF v.k = "str" THEN ParseFloat(v.s) ELSE v

\* The before-validator of property_value: a str has its commas replaced by
\* points, then float(v); any exception becomes a ValueError (Err).
convert_european_number(v) ==
    IF v.k = "str" THEN ParseFloat(Replace(v.s, ",", "."))
    ELSE v

\* The before-validator of postal_code: a float becomes int(v), anything else is
\* returned as it is.  int(nan) raises ValueError (Err); int(inf) raises
\* OverflowError, which is no validation error (see PostalCodeRaises).
normalize_postal_code(v) ==
    CASE v.k = "num" -> Trunc(v)
      [] v.k = "na"  -> Err
      [] OTHER       -> v

\* pydantic's float coercion of a field value.
AsFloat(v) == IF v.k = "str" THEN ParseFloat(v.s) ELSE v

\* pydantic's lax int coercion: a str of digits, or a float with no fractional
\* part; nan and inf are no int.
AsInt(v) ==
    CASE v.k = "str" -> ParseInt(v.s)
      [] v.k = "num" -> IF v.e = 0 THEN v ELSE Err
      [] OTHER       -> Err

\* gt=b / ge=b on a coerced float.  +inf is a float above every bound
\* (allow_inf_nan is left at its default).  A nan compares false with every
\* bound; no nan reaches the validator here, since clean_data drops the rows
\* that have one before it writes the file that validate_csv reads.
\* Mutant of FloatGt: ge instead of gt.
FloatGt_OrEqual(x, b) == x.k = "inf" \/ (x.k = "num" /\ NumGe(x, b))

FloatGt(x, b) == x.k = "inf" \/ (x.k = "num" /\ NumGt(x, b))
FloatGe(x, b) == x.k = "inf" \/ (x.k = "num" /\ NumGe(x, b))

IntGt(x, b) == x.k = "num" /\ NumGt(x, b)

\* Mutant of IntBetween: le is not checked.
IntBetween_LowerOnly(x, lo, hi) == x.k = "num" /\ NumGe(x, lo)

IntBetween(x, lo, hi) == x.k = "num" /\ NumGe(x, lo) /\ NumLe(x, hi)

\* Whether the value v of field f passes the field's validators and Field(...)
\* constraints.
FieldOk(f, v) ==
    CASE f = "property_value"     -> FloatGt(convert_european_number(v), 0)
      [] f = "postal_code"        ->
            IntBetween(AsInt(normalize_postal_code(v)), PostalCodeMin, PostalCodeMax)
      [] f = "department_code"    ->
            IntBetween(AsInt(v), DepartmentCodeMin, DepartmentCodeMax)
      [] f = "town_code"          -> IntGt(AsInt(v), 0)
      [] f = "property_type_code" ->
            IntBetween(AsInt(v), PropertyTypeCodeMin, PropertyTypeCodeMax)
      [] f = "building_area"      -> FloatGe(AsFloat(v), 0)
      [] f = "main_rooms"         -> FloatGe(AsFloat(v), 0)
      [] f = "land_area"          -> FloatGe(AsFloat(v), 0)

\* The typed value a field of a PropertyData instance holds.
FieldValue(f, v) ==
    CASE f = "property_value" -> convert_european_number(v)
      [] f = "postal_code"    -> AsInt(normalize_postal_code(v))
      [] f \in {"department_code", "town_code", "property_type_code"} -> AsInt(v)
      [] OTHER                -> AsFloat(v)

\* A row_dict is a function from column names to cells.  Field(...) makes every
\* field required: a name that is no key of row_dict is an error of that field.
FieldFails(f, row_dict) == f \notin DOMAIN row_dict \/ ~FieldOk(f, row_dict[f])

\* PropertyData(**row_dict) when no field fails: the typed record.
PropertyData(row_dict) == [f \in FieldSet |-> FieldValue(f, row_dict[f])]

\* PropertyData(**row_dict) raises something that is no ValidationError: int(inf)
\* in normalize_postal_code is an OverflowError, which pydantic lets through.
PostalCodeRaises(row_dict) ==
    "postal_code" \in DOMAIN row_dict /\ row_dict["postal_code"].k = "inf"

\* e.errors() as the list of err["loc"][0]: every failing field, in field order.
RECURSIVE ErrorsFrom(_, _)
ErrorsFrom(j, row_dict) ==
    IF j > Len(Fields) THEN <<>>
    ELSE (IF FieldFails(Fields[j], row_dict) THEN <<Fields[j]>> ELSE <<>>)
         \o ErrorsFrom(j + 1, row_dict)

\* Mutant of ValidationErrors: the constraint of property_type_code is not checked.
ValidationErrors_NoTypeCode(row_dict) ==
    SelectSeq(ErrorsFrom(1, row_dict), LAMBDA f : f # "property_type_code")

ValidationErrors(row_dict) == ErrorsFrom(1, row_dict)

(***************************************************************************)
(* CSV files and DataFrames.                                               *)
(*                                                                         *)
(* A file is [columns, lines]: the header's names and, per data line, one   *)
(* text per column (the empty text for a missing value).  A column name is *)
(* [txt, up, pad]: its lower-case, stripped text, whether it has upper-case *)
(* letters, and whether blanks surround it.                                *)
(***************************************************************************)
ColName(txt) == [txt |-> txt, up |-> FALSE, pad |-> FALSE]

\* The number pandas reads a text as, or Err when the text is no number.
PandasNumber(t) ==
    IF t = InfText THEN Inf
    ELSE IF Len(t) > 0 /\ t[1] = "-" THEN Neg(ParseUnsigned(Tail(t)))
    ELSE ParseUnsigned(t)

\* pd.read_csv's type inference: a column whose every non-empty text is a number
\* is numeric; any other column is an object column and keeps its texts as str.
\* An empty text is NaN in both.
IsNumericColumn(lines, c) ==
    \A r \in 1..Len(lines) : lines[r][c] = <<>> \/ PandasNumber(lines[r][c]).k # "err"

ReadCell(text, numeric) ==
    IF text = <<>> THEN NA
    ELSE IF numeric THEN PandasNumber(text)
    ELSE Str(text)

\* pd.read_csv: the typed table, its rows labelled 0, 1, ... (RangeIndex).
read_csv(file) ==
    LET numeric == [c \in 1..Len(file.columns) |-> IsNumericColumn(file.lines, c)]
    IN [columns |-> file.columns,
        rows    |-> [r \in 1..Len(file.lines) |->
                       [idx   |-> r - 1,
                        cells |-> [c \in 1..Len(file.columns) |->
                                     ReadCell(file.lines[r][c], numeric[c])]]]]

RECURSIVE NatToDigits(_)
NatToDigits(n) ==
    IF n < 10 THEN <<DigitSeq[n + 1]>>
    ELSE Append(NatToDigits(n \div 10), DigitSeq[(n % 10) + 1])

RECURSIVE ZeroPad(_, _)
ZeroPad(ds, n) == IF Len(ds) >= n THEN ds ELSE ZeroPad(<<"0">> \o ds, n)

\* The text to_csv writes for a cell.  A number is written in decimal notation
\* (pandas writes a float column's 45 as 45.0: the same number when read back).
WriteCell(v) ==
    CASE v.k = "na"  -> <<>>
      [] v.k = "inf" -> InfText
      [] v.k = "str" -> v.s
      [] v.k = "num" ->
            LET a    == IF v.m < 0 THEN 0 - v.m ELSE v.m
                sign == IF v.m < 0 THEN <<"-">> ELSE <<>>
                int  == NatToDigits(a \div Pow10(v.e))
                frac == ZeroPad(NatToDigits(a % Pow10(v.e)), v.e)
            IN sign \o int \o (IF v.e > 0 THEN <<".">> \o frac ELSE <<>>)

\* df.to_csv(path, index=False): the index labels are not written.
to_csv(d) ==
    [columns |-> d.columns,
     lines   |-> [r \in 1..Len(d.rows) |->
                    [c \in 1..Len(d.columns) |-> WriteCell(d.rows[r].cells[c])]]]

(***************************************************************************)
(* clean_data: the column mapping and the row filter.                      *)
(***************************************************************************)
\* rename_dict, as its keys in order and the value of each key.
rename_keys ==
    << "valeur_fonciere", "code_postal", "code_departement", "code_commune",
       "code_type_local", "surface_reelle_bati", "nombre_pieces_principales",
       "surface_terrain" >>

rename_dict == [j \in 1..Len(rename_keys) |-> Fields[j]]

\* Mutant of LowerStrip: lower-cased, blanks kept.
LowerStrip_LowerOnly(name) == [name EXCEPT !.up = FALSE]

\* df.columns.str.lower().str.strip()
LowerStrip(name) == [txt |-> name.txt, up |-> FALSE, pad |-> FALSE]

\* df.rename(columns=rename_dict): a column whose name is a key gets the key's
\* value as its name, any other column keeps its name.
Rename(name) ==
    IF \E j \in 1..Len(rename_keys) : name = ColName(rename_keys[j])
    THEN ColName(rename_dict[CHOOSE j \in 1..Len(rename_keys) : name = ColName(rename_keys[j])])
    ELSE name

ColumnSet(d) == {d.columns[c] : c \in 1..Len(d.columns)}

\* cols_to_keep: the values of rename_dict that are columns of df, in dict order.
RECURSIVE ColsFrom(_, _)
ColsFrom(j, d) ==
    IF j > Len(rename_keys) THEN <<>>
    ELSE (IF ColName(rename_dict[j]) \in ColumnSet(d) THEN <<ColName(rename_dict[j])>> ELSE <<>>)
         \o ColsFrom(j + 1, d)

cols_to_keep(d) == ColsFrom(1, d)

\* df[cols]: the named columns, in the order of cols.
SelectColumns(d, cols) ==
    LET pos(n) == CHOOSE c \in 1..Len(d.columns) : d.columns[c] = n
    IN [columns |-> cols,
        rows    |-> [r \in 1..Len(d.rows) |->
                       [idx   |-> d.rows[r].idx,
                        cells |-> [c \in 1..Len(cols) |-> d.rows[r].cells[pos(cols[c])]]]]]

\* Lines 66-73: lower-case and strip the names, rename, keep the renamed columns.
MapColumns(d) ==
    LET renamed == [d EXCEPT !.columns = [c \in 1..Len(d.columns) |->
                                            Rename(LowerStrip(d.columns[c]))]]
    IN SelectColumns(renamed, cols_to_keep(renamed))

HasNa(row) == \E c \in 1..Len(row.cells) : row.cells[c].k = "na"

\* Mutant of dropna: a frame that lacks a schema column loses every row.
dropna_RequiresEveryColumn(d) ==
    [d EXCEPT !.rows = IF Len(d.columns) < Len(Fields) THEN <<>>
                       ELSE SelectSeq(d.rows, LAMBDA row : ~HasNa(row))]

\* Mutant of dropna: no row is dropped.
dropna_KeepsAll(d) == d

\* df.dropna(): the rows with no missing value, labels and order kept.
dropna(d) == [d EXCEPT !.rows = SelectSeq(d.rows, LAMBDA row : ~HasNa(row))]

\* df.drop_duplicates(): keep="first" drops a row whose cells equal those of a
\* row before it.
RECURSIVE KeepFirst(_, _)
KeepFirst(rows, seen) ==
    IF Len(rows) = 0 THEN <<>>
    ELSE IF rows[1].cells \in seen THEN KeepFirst(Tail(rows), seen)
    ELSE <<rows[1]>> \o KeepFirst(Tail(rows), seen \cup {rows[1].cells})

\* Mutant of drop_duplicates: no row is dropped.
drop_duplicates_None(d) == d

\* Mutant of drop_duplicates: keep="last".
RECURSIVE KeepLast(_)
KeepLast(rows) ==
    IF Len(rows) = 0 THEN <<>>
    ELSE IF \E q \in 2..Len(rows) : rows[q].cells = rows[1].cells THEN KeepLast(Tail(rows))
    ELSE <<rows[1]>> \o KeepLast(Tail(rows))

drop_duplicates_KeepLast(d) == [d EXCEPT !.rows = KeepLast(d.rows)]

\* A frame without columns is "empty" for pandas and is returned as it is.
drop_duplicates(d) ==
    IF d.columns = <<>> THEN d ELSE [d EXCEPT !.rows = KeepFirst(d.rows, {})]

\* Lines 61-77 for one file: read, map the columns, drop NA and duplicates.
CleanFrame(file) == drop_duplicates(dropna(MapColumns(read_csv(file))))

(***************************************************************************)
(* File names and paths.  A raw file is named raw_<stem>.csv.              *)
(***************************************************************************)
UnknownYear == <<"unknown_year">>

\* Mutant of Year: the first four consecutive digits anywhere in the name.
Year_AnyFourDigits(stem) ==
    LET starts == {j \in 1..(Len(stem) - 3) : \A x \in j..(j + 3) : stem[x] \in Digits}
    IN IF starts = {} THEN UnknownYear
       ELSE SubSeq(stem, CHOOSE j \in starts : \A x \in starts : j <= x,
                         (CHOOSE j \in starts : \A x \in starts : j <= x) + 3)

\* re.search(r'(\d{4})\.csv$', name): the four characters before ".csv" when
\* they are digits.
Year(stem) ==
    LET n == Len(stem)
    IN IF n >= 4 /\ \A j \in (n - 3)..n : stem[j] \in Digits
       THEN SubSeq(stem, n - 3, n)
       ELSE UnknownYear

\* save_dir = cleaned_path / f"cleaned{year}"
save_dir(stem) == Year(stem)

\* output_file = save_dir / name.replace("raw_", "cleaned_")
output_file(stem) == [dir |-> save_dir(stem), kind |-> "cleaned", stem |-> stem]

\* csv_path_obj.parent / "invalid_rows.csv"
invalid_path(csv_path) == [dir |-> csv_path.dir, kind |-> "invalid", stem |-> <<>>]

(***************************************************************************)
(* validate_csv: one row, and the file of invalid rows.                    *)
(***************************************************************************)
\* row.to_dict(): the row's cell of every column, by the column's name.  Only a
\* name with no upper-case letter and no blank around it can be a field's name.
row_to_dict(d, r) ==
    [n \in {d.columns[c].txt : c \in {x \in 1..Len(d.columns) :
                                        ~d.columns[x].up /\ ~d.columns[x].pad}} |->
        d.rows[r].cells[CHOOSE c \in 1..Len(d.columns) : d.columns[c] = ColName(n)]]

\* Mutant of InvalidEntry: only the first error's column is recorded.
InvalidEntry_FirstErrorOnly(row_dict, errors) ==
    [row |-> row_dict, error_columns |-> <<errors[1]>>]

\* {**row_dict, "error_columns": error_info["errors"]}
InvalidEntry(row_dict, errors) == [row |-> row_dict, error_columns |-> errors]

\* Mutant of RecordInvalid: the entry is built and never appended.
RecordInvalid_Forgotten(entries, row_dict, errors) == entries

\* invalid_entries.append(...)
RecordInvalid(entries, row_dict, errors) == Append(entries, InvalidEntry(row_dict, errors))

\* Mutant of InvalidFile: the entries are written without their error columns.
InvalidFile_ValuesOnly(d, entries) ==
    [columns |-> d.columns,
     lines   |-> [k \in 1..Len(entries) |->
                    [c \in 1..Len(d.columns) |-> WriteCell(entries[k].row[d.columns[c].txt])]]]

\* pd.DataFrame(invalid_entries).to_csv(out_path, index=False): the columns of
\* the validated file and error_columns, one line per entry.
InvalidFile(d, entries) ==
    [columns |-> d.columns \o <<ColName("error_columns")>>,
     lines   |-> [k \in 1..Len(entries) |->
                    [c \in 1..Len(d.columns) |-> WriteCell(entries[k].row[d.columns[c].txt])]
                    \o << <<"[">> \o entries[k].error_columns \o <<"]">> >>]]

(***************************************************************************)
(* Input files.                                                            *)
(***************************************************************************)
\* The row of end-to-end scenario 1, as the texts of a raw line in the order
\* of rename_keys.
BaseLine ==
    << <<"1", "5", "0", "0", "0", "0", ",", "0", "0">>,
       <<"7", "5", "0", "0", "1">>,
       <<"7", "5">>,
       <<"7", "5", "1", "0", "1">>,
       <<"2">>,
       <<"4", "5">>,
       <<"2">>,
       <<"0">> >>

With(line, j, text) == [line EXCEPT ![j] = text]

Minus50 == <<"-", "5", "0">>
LocaleText == <<"2", "0", "0", " ", "0", "0", "0", ",", "5", "0", "€">>

\* The raw lines of the pipeline's files: the scenario row, a row with one
\* failing column, a row with two failing columns, a row with a missing value,
\* a row with an infinite postal code.
InputLines ==
    { BaseLine,
      With(BaseLine, 5, <<"5">>),
      With(With(BaseLine, 1, Minus50), 5, <<"5">>),
      With(BaseLine, 8, <<>>),
      With(BaseLine, 2, InfText) }

\* The characters of the enumerated property_value texts.
Alphabet == {"0", "5", ",", ".", " ", "€", "-"}

Texts == UNION {[1..n -> Alphabet] : n \in 1..MaxStrLen}

\* The raw lines of the one-line files: every short text and some long ones as
\* property value, and combinations of values of the other fields.
WideLines ==
    { With(BaseLine, 1, t) : t \in Texts \cup
        { LocaleText, <<"2", "0", "0", "0", "0", "0", ",", "5", "0">>,
          <<"2", "0", "0", "0", "0", "0", ".", "5", "0">> } }
    \cup
    { With(With(With(With(BaseLine, 1, pv), 2, pc_), 5, ty), 6, ba) :
        pv \in {BaseLine[1], Minus50, <<"0">>},
        pc_ \in { BaseLine[2], <<"7", "5", "0", "0">>, <<"7", "5", "0">>,
                  <<"1", "2", "3", "4", "5", "6">>, <<"7", "5", "0", "0", ".", "5">> },
        ty \in {BaseLine[5], <<"5">>},
        ba \in {BaseLine[6], <<"-", "1">>, <<"a", "b", "c">>, <<"4", "5", ",", "5">>} }

\* A header: for each column its name and the key of rename_keys whose values
\* it holds (0: a column that is no key, holding the line's number).
PlainHeader == [j \in 1..Len(rename_keys) |-> [name |-> ColName(rename_keys[j]), key |-> j]]

MixedHeader ==
    <<[name |-> ColName("date_mutation"), key |-> 0]>> \o
    [j \in 1..Len(rename_keys) |->
        [name |-> [txt |-> rename_keys[j], up |-> j % 2 = 1, pad |-> j % 3 = 1], key |-> j]]

\* The header of a file that has no surface_terrain column.
ShortHeader == SubSeq(PlainHeader, 1, Len(rename_keys) - 1)

Headers == {PlainHeader, MixedHeader, ShortHeader}

\* The header of a file that has none of the schema's columns.
ForeignHeader ==
    << [name |-> ColName("date_mutation"), key |-> 0],
       [name |-> [txt |-> "nature_mutation", up |-> TRUE, pad |-> FALSE], key |-> 0] >>

\* A file of zero bytes.
EmptyFile == [columns |-> <<>>, lines |-> <<>>]

\* The header of a file whose last schema column already bears its English
\* name, written " Land_Area ", and that has a column that is no key.
EnglishHeader ==
    [PlainHeader EXCEPT ![Len(rename_keys)] =
        [name |-> [txt |-> "land_area", up |-> TRUE, pad |-> TRUE], key |-> Len(rename_keys)]]
    \o <<[name |-> ColName("date_mutation"), key |-> 0]>>

RawFile(header, lines) ==
    [columns |-> [c \in 1..Len(header) |-> header[c].name],
     lines   |-> [r \in 1..Len(lines) |->
                    [c \in 1..Len(header) |->
                        IF header[c].key = 0 THEN NatToDigits(r)
                        ELSE lines[r][header[c].key]]]]

\* The stem of the raw file's name, raw_75_2024.csv.
RawStems == { <<"7", "5", "_", "2", "0", "2", "4">> }

(***************************************************************************)
(* The pipeline: clean_data on the raw file, then validate_csv on the      *)
(* cleaned file.                                                           *)
(***************************************************************************)
VARIABLES
    raw,              \* the raw file found under raw_path: [stem, file]
    disk,             \* the files under cleaned_path: path -> file
    pc,               \* start, cleaned, validating, returned, raised
    df,               \* clean_data's df after drop_duplicates
    csv_path,         \* validate_csv's argument
    save_invalid,     \* validate_csv's argument
    vdf,              \* validate_csv's df
    i,                \* the number of rows the loop has gone through
    valid_rows,
    invalid_entries,
    first_run,        \* what the first run of the pipeline left, once it is run again
    imp               \* txt_to_sqlite: its arguments, its position, the table

\* The programs beside the pipeline.
VARIABLES
    menu,             \* app_menu: the visibility of the three pages, the clicks so far
    smp,              \* random_sample: its arguments, its locals, the output file
    jobs,             \* the raw files under raw_path and the calls made for each
    loaded            \* what load_data or load_csv_folder last returned

aux == <<menu, smp, jobs, loaded>>

vars ==
    <<raw, disk, pc, df, csv_path, save_invalid, vdf, i, valid_rows, invalid_entries, first_run, imp, aux>>

\* app_menu not built.
NoMenu == [home |-> FALSE, dashboard |-> FALSE, prediction |-> FALSE, clicks |-> <<>>]

\* random_sample not called.
NoSample ==
    [pc |-> "none", lines |-> 0, eol |-> TRUE, sample_size |-> 0, line_count |-> 0,
     reservoir |-> <<>>, out |-> [exists |-> FALSE, text |-> <<>>],
     before |-> [exists |-> FALSE, text |-> <<>>]]

\* No raw file beside the pipeline's.
NoJobs == <<>>

\* Neither loader called.
NoLoad == [pc |-> "none", files |-> <<>>, rows |-> <<>>]

\* Only the pipeline or txt_to_sqlite runs.
Idle == menu = NoMenu /\ smp = NoSample /\ jobs = NoJobs /\ loaded = NoLoad

NoFrame == [columns |-> <<>>, rows |-> <<>>]
NoPath == [dir |-> <<>>, kind |-> "none", stem |-> <<>>]
NoDisk == [p \in {} |-> NoFrame]
NoRun ==
    [pc |-> "none", disk |-> NoDisk, save_invalid |-> TRUE,
     valid_rows |-> <<>>, invalid_entries |-> <<>>]

\* txt_to_sqlite not called.
NoImport ==
    [pc |-> "none", txt |-> 0, bad |-> 0, chunksize |-> 0, pos |-> 0,
     db |-> FALSE, table |-> <<>>, runs |-> 0, first_table |-> <<>>]

\* raw when rglob finds no raw_*.csv under raw_path.
NoRaw == [stem |-> <<>>, file |-> [columns |-> <<>>, lines |-> <<>>]]

\* all_files = list(raw_path.rglob("raw_*.csv"))
all_files == IF raw = NoRaw THEN <<>> ELSE <<raw>>

\* Mutant of NoColumnsToParse: pd.read_csv never raises.
NoColumnsToParse_Never(file) == FALSE

\* pd.read_csv raises EmptyDataError ("No columns to parse from file") for a
\* file that has no header line: a file of zero bytes or of blank lines only.
NoColumnsToParse(file) == file.columns = <<>>

\* The path validate_csv is called with when cleaned_path holds no cleaned
\* file: the one of validation.py's own call.
DefaultPath == output_file(CHOOSE s \in RawStems : TRUE)

\* The paths validate_csv is called with.
CsvPaths ==
    LET cleaned == {q \in DOMAIN disk : q.kind = "cleaned"}
    IN IF cleaned = {} THEN {DefaultPath} ELSE cleaned

InitPipeline(files) ==
    /\ raw \in files
    /\ disk = NoDisk
    /\ pc = "start"
    /\ df = NoFrame
    /\ csv_path = NoPath
    /\ save_invalid = TRUE
    /\ vdf = NoFrame
    /\ i = 0
    /\ valid_rows = <<>>
    /\ invalid_entries = <<>>
    /\ first_run = NoRun

InitWith(files) == InitPipeline(files) /\ imp = NoImport /\ Idle

Init ==
    InitWith({[stem |-> s, file |-> RawFile(h, ls)] :
                s \in RawStems, h \in Headers,
                ls \in UNION {[1..n -> InputLines] : n \in 0..MaxRows}})

InitRow ==
    InitWith({[stem |-> s, file |-> RawFile(h, <<l>>)] :
                s \in RawStems, h \in {PlainHeader, ShortHeader}, l \in WideLines})

\* Mutant of CleanData: the output file is opened in append mode.
CleanData_Append ==
    /\ pc = "start"
    /\ df' = CleanFrame(raw.file)
    /\ disk' = (output_file(raw.stem) :>
                   IF output_file(raw.stem) \in DOMAIN disk
                   THEN [disk[output_file(raw.stem)] EXCEPT
                            !.lines = @ \o to_csv(df').lines]
                   ELSE to_csv(df')) @@ disk
    /\ pc' = "cleaned"
    /\ UNCHANGED <<raw, csv_path, save_invalid, vdf, i, valid_rows, invalid_entries, first_run, imp, aux>>

\* Mutant of CleanData: a file without any schema column is a fatal error.
CleanData_AbortsOnMismatch ==
    /\ pc = "start"
    /\ IF all_files = <<>>
       THEN /\ pc' = "cleaned"
            /\ UNCHANGED <<df, disk>>
       ELSE IF NoColumnsToParse(raw.file) \/ cols_to_keep(MapColumns(read_csv(raw.file))) = <<>>
       THEN /\ pc' = "clean_raised"
            /\ UNCHANGED <<df, disk>>
       ELSE /\ df' = CleanFrame(raw.file)
            /\ disk' = (output_file(raw.stem) :> to_csv(df')) @@ disk
            /\ pc' = "cleaned"
    /\ UNCHANGED <<raw, csv_path, save_invalid, vdf, i, valid_rows, invalid_entries, first_run, imp, aux>>

\* clean_data: with no file found it prints and returns (lines 53-56); the
\* file found is read, which raises when it has nothing to parse (line 61), or
\* else cleaned and written (lines 58-93).
CleanData ==
    /\ pc = "start"
    /\ IF all_files = <<>>
       THEN /\ pc' = "cleaned"
            /\ UNCHANGED <<df, disk>>
       ELSE IF NoColumnsToParse(raw.file)
       THEN /\ pc' = "clean_raised"
            /\ UNCHANGED <<df, disk>>
       ELSE /\ df' = CleanFrame(raw.file)
            /\ disk' = (output_file(raw.stem) :> to_csv(df')) @@ disk
            /\ pc' = "cleaned"
    /\ UNCHANGED <<raw, csv_path, save_invalid, vdf, i, valid_rows, invalid_entries, first_run, imp, aux>>

\* validate_csv, lines 81-86: read the file, start with empty lists.  A path
\* that is no file (FileNotFoundError) and a file with nothing to parse
\* (EmptyDataError) make pd.read_csv raise to the caller.
ValidateRead ==
    /\ pc = "cleaned"
    /\ \E p \in CsvPaths, b \in BOOLEAN :
          /\ csv_path' = p
          /\ save_invalid' = b
          /\ IF p \notin DOMAIN disk \/ NoColumnsToParse(disk[p])
             THEN /\ pc' = "read_raised"
                  /\ vdf' = NoFrame
             ELSE /\ pc' = "validating"
                  /\ vdf' = read_csv(disk[p])
    /\ valid_rows' = <<>>
    /\ invalid_entries' = <<>>
    /\ i' = 0
    /\ UNCHANGED <<raw, disk, df, first_run, imp, aux>>

\* validate_csv, lines 88-102: one turn of the loop.  An exception that is no
\* ValidationError leaves validate_csv.
ValidateRow ==
    /\ pc = "validating"
    /\ i < Len(vdf.rows)
    /\ LET row_dict == row_to_dict(vdf, i + 1)
           errors   == ValidationErrors(row_dict)
       IN IF PostalCodeRaises(row_dict)
          THEN /\ pc' = "raised"
               /\ UNCHANGED <<i, valid_rows, invalid_entries>>
          ELSE /\ pc' = pc
               /\ i' = i + 1
               /\ IF errors = <<>>
                  THEN /\ valid_rows' = Append(valid_rows, PropertyData(row_dict))
                       /\ UNCHANGED invalid_entries
                  ELSE /\ invalid_entries' = RecordInvalid(invalid_entries, row_dict, errors)
                       /\ UNCHANGED valid_rows
    /\ UNCHANGED <<raw, disk, df, csv_path, save_invalid, vdf, first_run, imp, aux>>

\* Mutant of ValidateReturn: a file with no valid row ends in a failure.
ValidateReturn_FailsWhenEmpty ==
    /\ pc = "validating"
    /\ i = Len(vdf.rows)
    /\ disk' = IF save_invalid /\ invalid_entries # <<>>
               THEN (invalid_path(csv_path) :> InvalidFile(vdf, invalid_entries)) @@ disk
               ELSE disk
    /\ pc' = IF valid_rows = <<>> THEN "failed" ELSE "returned"
    /\ UNCHANGED <<raw, df, csv_path, save_invalid, vdf, i, valid_rows, invalid_entries, first_run, imp, aux>>

\* validate_csv, lines 104-114: write invalid_rows.csv, return valid_rows.
ValidateReturn ==
    /\ pc = "validating"
    /\ i = Len(vdf.rows)
    /\ disk' = IF save_invalid /\ invalid_entries # <<>>
               THEN (invalid_path(csv_path) :> InvalidFile(vdf, invalid_entries)) @@ disk
               ELSE disk
    /\ pc' = "returned"
    /\ UNCHANGED <<raw, df, csv_path, save_invalid, vdf, i, valid_rows, invalid_entries, first_run, imp, aux>>

Next == CleanData \/ ValidateRead \/ ValidateRow \/ ValidateReturn

\* The pipeline on files of up to MaxRows lines.
Spec == Init /\ [][Next]_vars

\* The pipeline on one-line files whose cells are drawn from wider sets.
SpecRow == InitRow /\ [][Next]_vars

\* The stems of raw files named with the year last, with the year first, with
\* no digit, with six digits and with two.
NameStems ==
    RawStems \cup
    { <<"2", "0", "2", "4", "_", "7", "5">>,
      <<"p", "a", "r", "i", "s">>,
      <<"1", "2", "3", "4", "5", "6">>,
      <<"2", "4">> }

\* The pipeline on short files under every name.
InitNames ==
    InitWith({[stem |-> s, file |-> RawFile(PlainHeader, ls)] :
                s \in NameStems, ls \in UNION {[1..n -> InputLines] : n \in 0..MaxRowsNames}})

SpecNames == InitNames /\ [][Next]_vars

\* The pipeline when no raw file is found, on a file of zero bytes, and on short
\* files with none and with all of the schema's columns.
InitInputs ==
    InitWith({NoRaw} \cup
             {[stem |-> s, file |-> f] :
                s \in RawStems,
                f \in {EmptyFile} \cup
                      {RawFile(h, ls) : h \in {ForeignHeader, PlainHeader},
                                        ls \in UNION {[1..n -> InputLines] : n \in 0..MaxRowsInputs}}})

SpecInputs == InitInputs /\ [][Next]_vars

\* The pipeline on short files with every header.
InitColumns ==
    InitWith({[stem |-> s, file |-> RawFile(h, ls)] :
                s \in RawStems, h \in Headers \cup {EnglishHeader},
                ls \in UNION {[1..n -> InputLines] : n \in 0..MaxRowsColumns}})

SpecColumns == InitColumns /\ [][Next]_vars

\* The caller runs the pipeline a second time on the same raw file, over what
\* the first run left under cleaned_path; the locals of both functions are new.
Rerun ==
    /\ pc \in {"returned", "raised"}
    /\ first_run = NoRun
    /\ first_run' = [pc |-> pc, disk |-> disk, save_invalid |-> save_invalid,
                 valid_rows |-> valid_rows, invalid_entries |-> invalid_entries]
    /\ pc' = "start"
    /\ df' = NoFrame
    /\ csv_path' = NoPath
    /\ vdf' = NoFrame
    /\ i' = 0
    /\ valid_rows' = <<>>
    /\ invalid_entries' = <<>>
    /\ UNCHANGED <<raw, disk, save_invalid, imp, aux>>

NextTwice == CleanData \/ ValidateRead \/ ValidateRow \/ ValidateReturn \/ Rerun

\* The pipeline run once or twice on the same raw file.
SpecTwice == Init /\ [][NextTwice]_vars

(***************************************************************************)
(* txt_to_sqlite: the import of a text file into a table.                  *)
(*                                                                         *)
(* The text file has imp.txt data lines, numbered from 1; reading raises   *)
(* at line imp.bad (a line pandas cannot parse or decode) when imp.bad is  *)
(* not 0.  The table is the sequence of the numbers of the lines inserted. *)
(* chunksize 0 stands for None.                                            *)
(* imp.runs counts the calls made with the same arguments, and             *)
(* imp.first_table is the table as the first call left it.                 *)
(***************************************************************************)
\* Largest number of data lines of the text file, and largest chunksize.
MaxTxtRows == 4
MaxChunk == 3

\* The lines from a to b.
Lines(a, b) == [x \in 1..(b - a + 1) |-> a + x - 1]

Min(a, b) == IF a <= b THEN a ELSE b

\* Lines 33-40: the parent folder and the database file are created.
ImportConnect ==
    /\ imp.pc = "called"
    /\ imp' = [imp EXCEPT !.pc = "loading", !.db = TRUE]
    /\ UNCHANGED <<raw, disk, pc, df, csv_path, save_invalid, vdf, i, valid_rows,
                   invalid_entries, first_run, aux>>

\* Lines 56-59: without chunksize the whole file is read, then the table is
\* replaced by its lines.
ImportWhole ==
    /\ imp.pc = "loading"
    /\ imp.chunksize = 0
    /\ imp' = IF imp.bad # 0
              THEN [imp EXCEPT !.pc = "raised"]
              ELSE [imp EXCEPT !.pc = "done", !.pos = imp.txt, !.table = Lines(1, imp.txt)]
    /\ UNCHANGED <<raw, disk, pc, df, csv_path, save_invalid, vdf, i, valid_rows,
                   invalid_entries, first_run, aux>>

\* Mutant of ImportChunk: every chunk is read before the first is inserted.
ImportChunk_ReadsAllFirst ==
    /\ imp.pc = "loading"
    /\ imp.chunksize > 0
    /\ imp.pos < imp.txt
    /\ LET last == Min(imp.pos + imp.chunksize, imp.txt)
       IN imp' = IF imp.bad # 0
                 THEN [imp EXCEPT !.pc = "raised"]
                 ELSE [imp EXCEPT !.pos = last, !.table = @ \o Lines(imp.pos + 1, last)]
    /\ UNCHANGED <<raw, disk, pc, df, csv_path, save_invalid, vdf, i, valid_rows,
                   invalid_entries, first_run, aux>>

\* Lines 48-54: one turn of the loop over the chunks: the next chunksize lines
\* are read, which raises when the bad line is among them, and appended to the
\* table.
ImportChunk ==
    /\ imp.pc = "loading"
    /\ imp.chunksize > 0
    /\ imp.pos < imp.txt
    /\ LET last == Min(imp.pos + imp.chunksize, imp.txt)
       IN imp' = IF imp.bad \in (imp.pos + 1)..last
                 THEN [imp EXCEPT !.pc = "raised"]
                 ELSE [imp EXCEPT !.pos = last, !.table = @ \o Lines(imp.pos + 1, last)]
    /\ UNCHANGED <<raw, disk, pc, df, csv_path, save_invalid, vdf, i, valid_rows,
                   invalid_entries, first_run, aux>>

\* Lines 61-66 after the last chunk: preview, close.
ImportClose ==
    /\ imp.pc = "loading"
    /\ imp.chunksize > 0
    /\ imp.pos = imp.txt
    /\ imp' = [imp EXCEPT !.pc = "done"]
    /\ UNCHANGED <<raw, disk, pc, df, csv_path, save_invalid, vdf, i, valid_rows,
                   invalid_entries, first_run, aux>>

\* The calls of txt_to_sqlite on a new database, beside a pipeline run on a
\* file of zero bytes or on the scenario's file.
InitImport ==
    /\ InitPipeline({[stem |-> s, file |-> f] :
                        s \in RawStems, f \in {EmptyFile, RawFile(PlainHeader, <<BaseLine>>)}})
    /\ imp \in {[pc |-> "called", txt |-> n, bad |-> b, chunksize |-> c, pos |-> 0,
                  db |-> FALSE, table |-> <<>>, runs |-> 1, first_table |-> <<>>] :
                   n \in 1..MaxTxtRows, b \in 0..MaxTxtRows, c \in 0..MaxChunk}
    /\ imp.bad <= imp.txt
    /\ Idle

NextImport ==
    \/ CleanData \/ ValidateRead \/ ValidateRow \/ ValidateReturn
    \/ ImportConnect \/ ImportWhole \/ ImportChunk \/ ImportClose

SpecImport == InitImport /\ [][NextImport]_vars

(***************************************************************************)
(* Properties.                                                             *)
(***************************************************************************)
\* The columns of the raw file that the mapper keeps, and the field each holds.
SchemaPositions ==
    {c \in 1..Len(raw.file.columns) :
        \E j \in 1..Len(rename_keys) : LowerStrip(raw.file.columns[c]) = ColName(rename_keys[j])}

FieldAt(c) ==
    rename_dict[CHOOSE j \in 1..Len(rename_keys) :
                    LowerStrip(raw.file.columns[c]) = ColName(rename_keys[j])]

\* The raw line r has no value in some column the mapper keeps.
RawMissing(r) == \E c \in SchemaPositions : raw.file.lines[r][c] = <<>>

\* The cleaned file that clean_data wrote for the raw file.
CleanedFile == disk[output_file(raw.stem)]

Classified == Len(valid_rows) + Len(invalid_entries)

\* C1: validate_csv classifies each row exactly once: during the loop the valid
\* records and the invalid entries together number the rows gone through, and
\* at the return they number the lines of the file.
C1_EveryRowClassifiedOnce ==
    /\ pc = "validating" => Classified = i
    /\ pc = "returned" => /\ i = Len(disk[csv_path].lines)
                          /\ Classified = Len(disk[csv_path].lines)

C1_Witness == pc = "returned" /\ Len(valid_rows) >= 1 /\ Len(invalid_entries) >= 1

\* C2 as stated: when the pipeline has returned, every raw row with no value in
\* a required column has an entry in the invalid partition carrying its values.
C2_MissingValueRowTraced ==
    pc = "returned" =>
        \A r \in 1..Len(raw.file.lines) :
            RawMissing(r) =>
                \E k \in 1..Len(invalid_entries) :
                    \A c \in SchemaPositions :
                        WriteCell(invalid_entries[k].row[FieldAt(c)]) = raw.file.lines[r][c]

\* C2 as amended: a row with no value in a required column of the raw file is
\* removed by dropna and never classified: no kept row is such a row, the
\* cleaned file has no empty cell, no more rows are classified than raw rows
\* have every value, and no invalid entry has a missing value.  A required
\* column that the file lacks altogether makes every row that is classified
\* Invalid, with that column among its error columns.
C2_MissingValueRowDropped ==
    /\ pc # "start" =>
          /\ \A q \in 1..Len(df.rows) : ~RawMissing(df.rows[q].idx + 1)
          /\ \A r \in 1..Len(CleanedFile.lines) :
                \A c \in 1..Len(CleanedFile.columns) : CleanedFile.lines[r][c] # <<>>
    /\ Classified <= Cardinality({r \in 1..Len(raw.file.lines) : ~RawMissing(r)})
    /\ \A k \in 1..Len(invalid_entries) :
          \A f \in DOMAIN invalid_entries[k].row : invalid_entries[k].row[f].k # "na"
    /\ \A f \in FieldSet :
          (pc \in {"validating", "returned"} /\ \A c \in 1..Len(vdf.columns) : vdf.columns[c] # ColName(f))
              => /\ valid_rows = <<>>
                 /\ \A k \in 1..Len(invalid_entries) :
                       \E x \in 1..Len(invalid_entries[k].error_columns) :
                           invalid_entries[k].error_columns[x] = f

C2_Witness ==
    /\ pc = "returned"
    /\ \E r \in 1..Len(raw.file.lines) : RawMissing(r)
    /\ Len(invalid_entries) >= 1
    /\ Len(df.rows) < Len(raw.file.lines)

\* The k-th smallest element of a set of numbers.
Nth(S, k) == CHOOSE r \in S : Cardinality({x \in S : x < r}) = k - 1

\* The text line that to_csv writes for a row_dict, in the columns of file.
LineOf(file, row_dict) ==
    [c \in 1..Len(file.columns) |-> WriteCell(row_dict[file.columns[c].txt])]

\* C3 as stated: after the pipeline has run, no row classified Invalid is in
\* the persisted valid partition, the cleaned file.
C3_PersistedOnlyValid ==
    pc = "returned" =>
        \A k \in 1..Len(invalid_entries) :
            \A r \in 1..Len(disk[csv_path].lines) :
                disk[csv_path].lines[r] # LineOf(disk[csv_path], invalid_entries[k].row)

\* C3 as amended: the list validate_csv returns holds exactly the records of
\* the rows no field of which fails, in order; the persisted cleaned file is
\* the one clean_data wrote before validation, and it still holds every row
\* classified Invalid.
C3_ReturnedOnlyValid ==
    pc = "returned" =>
        LET ok == {r \in 1..Len(vdf.rows) :
                      \A f \in FieldSet : ~FieldFails(f, row_to_dict(vdf, r))}
        IN /\ Len(valid_rows) = Cardinality(ok)
           /\ \A k \in 1..Len(valid_rows) :
                 valid_rows[k] = PropertyData(row_to_dict(vdf, Nth(ok, k)))
           /\ disk[csv_path] = to_csv(df)
           /\ \A k \in 1..Len(invalid_entries) :
                 \E r \in 1..Len(disk[csv_path].lines) :
                     disk[csv_path].lines[r] = LineOf(disk[csv_path], invalid_entries[k].row)

C3_Witness ==
    /\ pc = "returned"
    /\ Len(valid_rows) >= 1
    /\ Len(invalid_entries) >= 1
    /\ Len(disk[csv_path].lines) = Len(valid_rows) + Len(invalid_entries)

\* The raw rows in the canonical columns, before the row filter.
Mapped == MapColumns(read_csv(raw.file))

NoTwoEqual(seq) == \A a, b \in 1..Len(seq) : a # b => seq[a] # seq[b]

\* The number of rows of df whose cells are those of the row.
Copies(d, row) == Cardinality({q \in 1..Len(d.rows) : d.rows[q].cells = row.cells})

\* C4 as stated: the cleaned output has no two identical records, and of every
\* group of identical input rows exactly one is in the output.
C4_OneOfEveryGroup ==
    pc # "start" =>
        LET m == Mapped
        IN /\ NoTwoEqual(CleanedFile.lines)
           /\ \A r \in 1..Len(m.rows) : Copies(df, m.rows[r]) = 1

\* C4 as amended: the cleaned output has no two identical records; of every
\* group of identical input rows without a missing value exactly one is in the
\* output, and of a group of rows with a missing value none is.
C4_OneOfEveryCompleteGroup ==
    pc # "start" =>
        LET m == Mapped
        IN /\ NoTwoEqual(CleanedFile.lines)
           /\ Len(CleanedFile.lines) = Len(df.rows)
           /\ \A r \in 1..Len(m.rows) :
                 Copies(df, m.rows[r]) = IF HasNa(m.rows[r]) THEN 0 ELSE 1

C4_Witness ==
    /\ pc = "cleaned"
    /\ LET m == Mapped
       IN /\ \E a, b \in 1..Len(m.rows) :
                a < b /\ m.rows[a].cells = m.rows[b].cells /\ ~HasNa(m.rows[a])
          /\ \E r \in 1..Len(m.rows) : HasNa(m.rows[r])
    /\ Len(df.rows) = 1

\* C5: the rows the filter retains are exactly the first occurrence of each
\* value-combination among the rows without missing value, in input order.
C5_FirstOccurrenceInOrder ==
    pc # "start" =>
        LET m     == Mapped
            first == {r \in 1..Len(m.rows) :
                        /\ ~HasNa(m.rows[r])
                        /\ \A q \in 1..(r - 1) : m.rows[q].cells # m.rows[r].cells}
        IN /\ Len(df.rows) = Cardinality(first)
           /\ \A k \in 1..Len(df.rows) :
                 /\ df.rows[k].idx + 1 = Nth(first, k)
                 /\ df.rows[k].cells = m.rows[Nth(first, k)].cells
           /\ Len(CleanedFile.lines) = Cardinality(first)

C5_Witness ==
    /\ pc = "cleaned"
    /\ Len(raw.file.lines) = 3
    /\ LET m == Mapped
       IN /\ m.rows[1].cells = m.rows[3].cells
          /\ m.rows[1].cells # m.rows[2].cells
          /\ ~HasNa(m.rows[1]) /\ ~HasNa(m.rows[2])
    /\ Len(df.rows) = 2 /\ df.rows[1].idx = 0 /\ df.rows[2].idx = 1

\* The text of field f in line r of the file validate_csv reads.
CleanText(r, f) ==
    disk[csv_path].lines[r][CHOOSE c \in 1..Len(disk[csv_path].columns) :
                                disk[csv_path].columns[c] = ColName(f)]

\* The error columns recorded for the only row of a one-line file.
OnlyRowErrors ==
    IF invalid_entries = <<>> THEN {}
    ELSE {invalid_entries[1].error_columns[x] : x \in 1..Len(invalid_entries[1].error_columns)}

OneRowValidated == pc = "returned" /\ Len(vdf.rows) = 1

\* A number in locale formatting: digits, blanks between digits as thousands
\* separators, at most one comma followed by digits only, a currency symbol at
\* the end; one of the three at least.
IsLocale(t) ==
    /\ Len(t) > 0
    /\ \A j \in 1..Len(t) : t[j] \in Digits \cup {",", " ", "€"}
    /\ t[1] \in Digits
    /\ Cardinality(Positions(t, ",")) <= 1
    /\ \A j \in Positions(t, ",") :
          /\ j < Len(t) /\ t[j + 1] \in Digits
          /\ \A x \in (j + 1)..Len(t) : t[x] # " "
    /\ \A j \in Positions(t, " ") : j < Len(t) /\ t[j - 1] \in Digits /\ t[j + 1] \in Digits
    /\ \A j \in Positions(t, "€") : j = Len(t) /\ t[j - 1] \in Digits
    /\ \E j \in 1..Len(t) : t[j] \notin Digits

IsCommaDecimal(t) == IsLocale(t) /\ Positions(t, " ") = {} /\ Positions(t, "€") = {}

\* The plain-dot decimal of equal magnitude, and the number it writes.
PlainDot(t) == Replace(SelectSeq(t, LAMBDA ch : ch \notin {" ", "€"}), ",", ".")
Magnitude(t) == ParseUnsigned(PlainDot(t))

\* C6 as stated: a property value in locale formatting (comma, thousands
\* separators, currency symbol) of positive magnitude is coerced to the number
\* of its plain-dot decimal, and the row is not rejected for property_value.
C6_LocaleNormalized ==
    (OneRowValidated /\ IsLocale(CleanText(1, "property_value"))
        /\ Magnitude(CleanText(1, "property_value")).m > 0)
    => /\ "property_value" \notin OnlyRowErrors
       /\ valid_rows # <<>> =>
             valid_rows[1]["property_value"] = Magnitude(CleanText(1, "property_value"))

\* C6 as amended: a property value written with a decimal comma and neither
\* thousands separator nor currency symbol is coerced to the number of its
\* plain-dot decimal and not rejected for it; with a thousands separator or a
\* currency symbol it is not normalized and property_value is an error column
\* of the row; a decimal comma in building_area is not normalized either.
C6_DecimalCommaNormalized ==
    OneRowValidated =>
        LET t == CleanText(1, "property_value")
        IN /\ (IsCommaDecimal(t) /\ Magnitude(t).m > 0) =>
                 /\ "property_value" \notin OnlyRowErrors
                 /\ valid_rows # <<>> => valid_rows[1]["property_value"] = Magnitude(t)
           /\ (IsLocale(t) /\ ~IsCommaDecimal(t)) =>
                 /\ valid_rows = <<>>
                 /\ "property_value" \in OnlyRowErrors
           /\ IsCommaDecimal(CleanText(1, "building_area")) =>
                 /\ valid_rows = <<>>
                 /\ "building_area" \in OnlyRowErrors

C6_Witness ==
    /\ OneRowValidated
    /\ CleanText(1, "property_value") = <<"2", "0", "0", "0", "0", "0", ",", "5", "0">>
    /\ Len(valid_rows) = 1
    /\ valid_rows[1]["property_value"] = Num(2000005, 1)

IsDigits(t) == Len(t) > 0 /\ \A j \in 1..Len(t) : t[j] \in Digits

IsNonPositive(t) ==
    LET x == ParseFloat(Replace(t, ",", "."))
    IN x.k = "num" /\ x.m <= 0

\* C8: a row whose property value is zero or negative is classified Invalid
\* and property_value is among its error columns.
C8_NonPositiveValueInvalid ==
    (pc \in {"validating", "returned"} /\ i = 1 /\ IsNonPositive(CleanText(1, "property_value")))
    => /\ valid_rows = <<>>
       /\ Len(invalid_entries) = 1
       /\ "property_value" \in OnlyRowErrors

C8_Witness ==
    /\ OneRowValidated
    /\ CleanText(1, "property_value") = Minus50
    /\ invalid_entries # <<>>
    /\ invalid_entries[1].error_columns = <<"property_value">>

\* C9: the invalid entries are, in order, those of the rows gone through that
\* have a failing field; each names every failing field of its row, once, and
\* carries the values of the row's line.
C9_EveryFailingColumnNamed ==
    pc \in {"validating", "returned"} =>
        LET bad == {r \in 1..i : \E f \in FieldSet : FieldFails(f, row_to_dict(vdf, r))}
        IN /\ Len(invalid_entries) = Cardinality(bad)
           /\ \A k \in 1..Len(invalid_entries) :
                 LET e == invalid_entries[k]
                 IN /\ {e.error_columns[x] : x \in 1..Len(e.error_columns)}
                          = {f \in FieldSet : FieldFails(f, e.row)}
                    /\ NoTwoEqual(e.error_columns)
                    /\ LineOf(disk[csv_path], e.row) = disk[csv_path].lines[Nth(bad, k)]

C9_Witness ==
    /\ OneRowValidated
    /\ invalid_entries # <<>>
    /\ invalid_entries[1].error_columns =
           <<"property_value", "postal_code", "property_type_code", "building_area">>

\* C10 as stated: no row makes validate_csv raise an error to its caller.
C10_NoRowAborts == pc # "raised"

(***************************************************************************)
(* Outcomes of a run.                                                      *)
(***************************************************************************)
\* C11 as stated: the pipeline never ends as a normal return with no valid row.
C11_ZeroValidIsFailure == pc = "returned" => valid_rows # <<>>

\* C11 as amended: once every row of the file has been gone through and none
\* is valid, the step validate_csv takes is its normal return, with the empty
\* list; the return happens only after the last row.
C11_ZeroValidReturnsNormally ==
    [][ /\ (pc = "validating" /\ i = Len(vdf.rows) /\ valid_rows = <<>>)
            => (pc' = "returned" /\ valid_rows' = <<>>)
        /\ pc' = "returned" => i = Len(vdf.rows) ]_vars

C11_Witness ==
    /\ pc = "returned"
    /\ valid_rows = <<>>
    /\ Len(vdf.rows) >= 2
    /\ Len(invalid_entries) = Len(vdf.rows)

\* C12: a second run of the pipeline on the same raw file with the same
\* save_invalid leaves every file under cleaned_path as the first run left it,
\* from its first step to its last, and ends as the first run ended, with the
\* same valid records and the same invalid entries.
C12_SecondRunChangesNothing ==
    (first_run # NoRun /\ (pc \in {"start", "cleaned"} \/ save_invalid = first_run.save_invalid)) =>
        /\ disk = first_run.disk
        /\ pc \in {"returned", "raised"} =>
              /\ pc = first_run.pc
              /\ valid_rows = first_run.valid_rows
              /\ invalid_entries = first_run.invalid_entries

C12_Witness ==
    /\ first_run # NoRun
    /\ pc = "returned"
    /\ save_invalid /\ first_run.save_invalid
    /\ Len(valid_rows) >= 1
    /\ Len(invalid_entries) >= 1
    /\ invalid_path(csv_path) \in DOMAIN disk

\* A coerced int, and a coerced float that is no NaN.
IsIntValue(x) == x.k = "num" /\ x.e = 0
IsFloatValue(x) == x.k \in {"num", "inf"}

\* C13: every record validate_csv holds as valid has the eight canonical
\* fields, none of them null, read from eight columns of the file, and
\* satisfies property_value > 0, 1 <= department_code <= 976, town_code > 0,
\* property_type_code in 1..4, building_area, main_rooms, land_area >= 0.
C13_ValidRecordSatisfiesSchema ==
    \A k \in 1..Len(valid_rows) :
        LET rec == valid_rows[k]
        IN /\ DOMAIN rec = FieldSet
           /\ \A f \in FieldSet : \E c \in 1..Len(vdf.columns) : vdf.columns[c] = ColName(f)
           /\ IsFloatValue(rec["property_value"])
           /\ rec["property_value"].k = "num" => rec["property_value"].m > 0
           /\ IsIntValue(rec["postal_code"])
           /\ IsIntValue(rec["department_code"])
           /\ rec["department_code"].m \in 1..976
           /\ IsIntValue(rec["town_code"])
           /\ rec["town_code"].m > 0
           /\ IsIntValue(rec["property_type_code"])
           /\ rec["property_type_code"].m \in {1, 2, 3, 4}
           /\ \A f \in {"building_area", "main_rooms", "land_area"} :
                 /\ IsFloatValue(rec[f])
                 /\ rec[f].k = "num" => rec[f].m >= 0

C13_Witness ==
    /\ OneRowValidated
    /\ Len(valid_rows) = 1
    /\ valid_rows[1]["property_value"] = Num(5, 1)
    /\ valid_rows[1]["property_type_code"] = Whole(2)

\* The texts of the raw file's column names, lower-cased and stripped.
RawNames == {raw.file.columns[c].txt : c \in 1..Len(raw.file.columns)}

\* The indices of the schema's entries, in the order of the schema, that are
\* members of the set S.
RECURSIVE IndicesIn(_, _)
IndicesIn(j, S) ==
    IF j > Len(rename_keys) THEN <<>>
    ELSE (IF j \in S THEN <<j>> ELSE <<>>) \o IndicesIn(j + 1, S)

AbsentFields ==
    {Fields[j] : j \in {x \in 1..Len(rename_keys) :
                          rename_keys[x] \notin RawNames /\ Fields[x] \notin RawNames}}

\* C15 as stated: of a file that lacks a schema column no row reaches the
\* cleaned output.
C15_AbsentColumnDropsEveryRow ==
    (pc # "start" /\ AbsentFields # {}) => CleanedFile.lines = <<>>

\* C15 as amended: a file that lacks a schema column is cleaned without an
\* error; its output lacks that column and holds one row for every distinct
\* combination of values among the rows that have a value in each schema
\* column the file has.
C15_AbsentColumnKeepsCompleteRows ==
    (pc # "start" /\ AbsentFields # {}) =>
        LET m == Mapped
        IN /\ output_file(raw.stem) \in DOMAIN disk
           /\ \A f \in AbsentFields :
                 \A c \in 1..Len(CleanedFile.columns) : CleanedFile.columns[c] # ColName(f)
           /\ Len(CleanedFile.columns) = Len(Fields) - Cardinality(AbsentFields)
           /\ Len(CleanedFile.lines) =
                 Cardinality({m.rows[r].cells : r \in {x \in 1..Len(m.rows) : ~HasNa(m.rows[x])}})

C15_Witness ==
    /\ pc = "cleaned"
    /\ AbsentFields = {"land_area"}
    /\ Len(raw.file.lines) = 2
    /\ Len(CleanedFile.lines) = 2

\* The name raw_<stem>.csv has four consecutive digits somewhere.
ContainsYear(stem) ==
    \E j \in 1..(Len(stem) - 3) : \A x \in j..(j + 3) : stem[x] \in Digits

\* The directories of the files under cleaned_path.
Partitions == {p.dir : p \in DOMAIN disk}

\* C16 as stated: the file is written to the partition of a 4-digit year its
\* name contains, and to the unknown partition only when its name contains none.
C16_KeyedByYearInName ==
    pc # "start" =>
        /\ Partitions # {}
        /\ \A d \in Partitions :
              IF ContainsYear(raw.stem)
              THEN \E j \in 1..(Len(raw.stem) - 3) : d = SubSeq(raw.stem, j, j + 3)
              ELSE d = UnknownYear

\* C16 as amended: the partition is keyed by the four characters that end the
\* name before ".csv" when they are digits; any other file, one whose name has
\* a year elsewhere included, is written to the unknown_year partition.  The
\* partition exists once the file is cleaned, although nothing was under
\* cleaned_path before, and the invalid rows go to the same partition.
C16_KeyedByYearBeforeExtension ==
    LET n    == Len(raw.stem)
        ends == n >= 4 /\ \A x \in (n - 3)..n : raw.stem[x] \in Digits
        key  == IF ends THEN <<raw.stem[n - 3], raw.stem[n - 2], raw.stem[n - 1], raw.stem[n]>>
                ELSE <<"unknown_year">>
    IN /\ pc = "start" /\ first_run = NoRun => disk = NoDisk
       /\ pc # "start" => Partitions = {key}

C16_Witness ==
    /\ pc = "returned"
    /\ raw.stem[1] = "2" /\ ContainsYear(raw.stem)
    /\ Partitions = {UnknownYear}
    /\ Cardinality(DOMAIN disk) = 2

\* The rows of the validated file that have a failing field, and the failing
\* fields of row r in field order.
FailingRows == {r \in 1..Len(vdf.rows) : \E f \in FieldSet : FieldFails(f, row_to_dict(vdf, r))}
FailingFields(r) == SelectSeq(Fields, LAMBDA f : FieldFails(f, row_to_dict(vdf, r)))

\* C17 as stated: after a validation run that classified a row Invalid, the
\* partition has an invalid store holding one entry per Invalid row.
C17_InvalidStoreAfterEveryRun ==
    (pc = "returned" /\ invalid_entries # <<>>) =>
        /\ invalid_path(csv_path) \in DOMAIN disk
        /\ Len(disk[invalid_path(csv_path)].lines) = Len(invalid_entries)

\* C17 as amended: when validate_csv returns with save_invalid and a row was
\* classified Invalid, invalid_rows.csv is a file of the partition other than
\* the cleaned file, which is left as it was; it holds, in order, one line for
\* every row with a failing field: the row's values as the cleaned file has
\* them, then the names of its failing columns.  Without save_invalid, without
\* an Invalid row, or when a row aborts the run, no invalid store is written.
C17_InvalidStoreWhenSaved ==
    /\ pc = "returned" =>
          LET out == invalid_path(csv_path)
          IN IF save_invalid /\ FailingRows # {}
             THEN /\ out \in DOMAIN disk
                  /\ out # csv_path /\ out.dir = csv_path.dir
                  /\ disk[csv_path] = to_csv(df)
                  /\ disk[out].columns = disk[csv_path].columns \o <<ColName("error_columns")>>
                  /\ Len(disk[out].lines) = Cardinality(FailingRows)
                  /\ \A k \in 1..Len(disk[out].lines) :
                        disk[out].lines[k] =
                            disk[csv_path].lines[Nth(FailingRows, k)]
                            \o << <<"[">> \o FailingFields(Nth(FailingRows, k)) \o <<"]">> >>
             ELSE DOMAIN disk = {csv_path}
    /\ pc \in {"validating", "raised"} => DOMAIN disk = {csv_path}

C17_Witness ==
    /\ pc = "returned"
    /\ save_invalid
    /\ Len(invalid_entries) = 2
    /\ Len(valid_rows) = 1
    /\ Len(disk[invalid_path(csv_path)].lines) = 2

\* The raw file has a header and none of its columns stands for a schema entry.
NoSchemaColumn ==
    /\ raw # NoRaw
    /\ raw.file.columns # <<>>
    /\ AbsentFields = FieldSet

\* C18 as stated: for a file with none of the schema's columns clean_data
\* aborts and nothing is written.
C18_SchemaMismatchAborts ==
    NoSchemaColumn => (disk = NoDisk /\ pc \in {"start", "clean_raised"})

\* C18 as amended: for a file with none of the schema's columns clean_data
\* ends normally and has written an output file, one without any column, to
\* the file's partition; it is validate_csv that raises, when it reads that
\* file, with no row classified and no invalid store written.
C18_SchemaMismatchWritesEmptyOutput ==
    (NoSchemaColumn /\ pc # "start") =>
        /\ pc \in {"cleaned", "read_raised"}
        /\ DOMAIN disk = {output_file(raw.stem)}
        /\ CleanedFile.columns = <<>>
        /\ valid_rows = <<>> /\ invalid_entries = <<>>

C18_Witness ==
    /\ NoSchemaColumn
    /\ Len(raw.file.lines) = 2
    /\ pc = "read_raised"
    /\ output_file(raw.stem) \in DOMAIN disk

\* C19 as stated: when no source file is found, or the file found is empty,
\* the run ends in a failure distinct from normal completion and nothing is
\* written.
C19_InputErrorIsFatal ==
    ((raw = NoRaw \/ raw.file = EmptyFile) /\ pc # "start") =>
        (pc = "clean_raised" /\ disk = NoDisk)

\* C19 as amended: a file with nothing to parse makes clean_data raise at its
\* read, with nothing written; a path that is no file, or a file with nothing
\* to parse, makes validate_csv raise at its read, with nothing classified and
\* nothing written.  When no source file is found at all, clean_data returns
\* as it does after success, having written nothing.  A file with a header and
\* no data row is no error: its cleaned file is written.
C19_ReadErrorRaisesNoFileReturns ==
    /\ (raw # NoRaw /\ raw.file = EmptyFile /\ pc # "start") =>
          (pc = "clean_raised" /\ disk = NoDisk)
    /\ pc = "clean_raised" => (raw # NoRaw /\ raw.file.columns = <<>> /\ disk = NoDisk)
    /\ (raw = NoRaw /\ pc # "start") =>
          (pc \in {"cleaned", "read_raised"} /\ disk = NoDisk)
    /\ pc = "read_raised" =>
          /\ csv_path \notin DOMAIN disk \/ disk[csv_path].columns = <<>>
          /\ valid_rows = <<>> /\ invalid_entries = <<>>
          /\ \A q \in DOMAIN disk : q.kind = "cleaned"
    /\ (raw # NoRaw /\ raw.file.columns # <<>> /\ pc # "start") =>
          output_file(raw.stem) \in DOMAIN disk

C19_Witness ==
    /\ raw = NoRaw
    /\ pc = "read_raised"
    /\ csv_path = DefaultPath
    /\ disk = NoDisk

\* C20 as stated: once reading a source has failed, nothing of that source is
\* in its destination: no cleaned file, no row in the table.
C20_ReadFailureWritesNothing ==
    /\ pc = "clean_raised" => disk = NoDisk
    /\ imp.pc = "raised" => imp.table = <<>>

\* C20 as amended: clean_data reads the whole file before it writes (and its
\* cleaned file is written before validate_csv validates it), and so does
\* txt_to_sqlite without chunksize: a failed read leaves nothing written.
\* With a chunksize txt_to_sqlite reads and writes in turns: the table always
\* holds the lines of the chunks read so far, and a read that fails leaves in
\* the table every chunk that came before the line it failed at.
C20_ChunksWrittenBeforeLaterRead ==
    /\ pc = "clean_raised" => disk = NoDisk
    /\ output_file(raw.stem) \in DOMAIN disk => raw.file.columns # <<>>
    /\ pc \in {"validating", "returned", "raised"} => csv_path \in DOMAIN disk
    /\ imp.chunksize = 0 =>
          /\ imp.pc = "raised" => (imp.bad # 0 /\ imp.table = <<>>)
          /\ imp.pc = "done" => (imp.bad = 0 /\ imp.table = [x \in 1..imp.txt |-> x])
          /\ imp.pc \in {"called", "loading"} => imp.table = <<>>
    /\ imp.chunksize > 0 =>
          /\ imp.table = [x \in 1..imp.pos |-> x]
          /\ imp.pc = "raised" =>
                /\ imp.bad # 0
                /\ imp.pos = ((imp.bad - 1) \div imp.chunksize) * imp.chunksize
          /\ imp.pc = "done" => (imp.pos = imp.txt /\ imp.bad = 0)

C20_Witness ==
    /\ imp.pc = "raised"
    /\ imp.chunksize = 2
    /\ imp.bad = 3
    /\ imp.table = <<1, 2>>
    /\ pc = "clean_raised"


(***************************************************************************)
(* app_menu: the three pages and the navigation buttons.                   *)
(***************************************************************************)
\* Largest number of clicks followed.
MaxClicks == 4

\* go_dashboard and go_prediction of home_page, back_home of dashboard_page
\* and of prediction_page.
Buttons == {"go_dashboard", "go_prediction", "back_home_1", "back_home_2"}

\* The three updates a click handler returns for [home, dashboard, prediction],
\* applied to the columns.
Update(h, d, p, button) ==
    [home |-> h, dashboard |-> d, prediction |-> p, clicks |-> Append(menu.clicks, button)]

\* Lines 39-47.
GoDashboard ==
    /\ Len(menu.clicks) < MaxClicks
    /\ menu' = Update(FALSE, TRUE, FALSE, "go_dashboard")
    /\ UNCHANGED <<raw, disk, pc, df, csv_path, save_invalid, vdf, i, valid_rows,
                   invalid_entries, first_run, imp, smp, jobs, loaded>>

\* Lines 49-57.
GoPrediction ==
    /\ Len(menu.clicks) < MaxClicks
    /\ menu' = Update(FALSE, FALSE, TRUE, "go_prediction")
    /\ UNCHANGED <<raw, disk, pc, df, csv_path, save_invalid, vdf, i, valid_rows,
                   invalid_entries, first_run, imp, smp, jobs, loaded>>

\* Mutant of BackHome: the handler shows Home and leaves the other columns as
\* they are.
BackHome_OthersUntouched ==
    /\ Len(menu.clicks) < MaxClicks
    /\ \E back_btn \in {"back_home_1", "back_home_2"} :
          menu' = Update(TRUE, menu.dashboard, menu.prediction, back_btn)
    /\ UNCHANGED <<raw, disk, pc, df, csv_path, save_invalid, vdf, i, valid_rows,
                   invalid_entries, first_run, imp, smp, jobs, loaded>>

\* Lines 59-68: the same handler on both "Retour à l'accueil" buttons.
BackHome ==
    /\ Len(menu.clicks) < MaxClicks
    /\ \E back_btn \in {"back_home_1", "back_home_2"} :
          menu' = Update(TRUE, FALSE, FALSE, back_btn)
    /\ UNCHANGED <<raw, disk, pc, df, csv_path, save_invalid, vdf, i, valid_rows,
                   invalid_entries, first_run, imp, smp, jobs, loaded>>

\* Lines 24-35: the columns as app_menu builds them.  No pipeline runs.
InitMenu ==
    /\ InitPipeline({NoRaw})
    /\ imp = NoImport
    /\ menu = [home |-> TRUE, dashboard |-> FALSE, prediction |-> FALSE, clicks |-> <<>>]
    /\ smp = NoSample /\ jobs = NoJobs /\ loaded = NoLoad

\* Every button can be clicked in every state: a handler can also be triggered
\* through the application's API while its button's page is hidden.
NextMenu == GoDashboard \/ GoPrediction \/ BackHome

SpecMenu == InitMenu /\ [][NextMenu]_vars

\* The pages that are visible.
Visible ==
    {p \in {"home", "dashboard", "prediction"} :
        \/ p = "home" /\ menu.home
        \/ p = "dashboard" /\ menu.dashboard
        \/ p = "prediction" /\ menu.prediction}

\* The page a button selects.
PageOf(button) ==
    CASE button = "go_dashboard" -> "dashboard"
      [] button = "go_prediction" -> "prediction"
      [] OTHER -> "home"

\* C22: only Home is visible at start, and after any sequence of clicks exactly
\* one page is visible, the one selected by the last click: Dashboard for the
\* Dashboard button, Prediction for the Prediction button, Home for each of the
\* two "Retour à l'accueil" buttons.
C22_LastClickSelectsThePage ==
    IF menu.clicks = <<>>
    THEN Visible = {"home"}
    ELSE Visible = {PageOf(menu.clicks[Len(menu.clicks)])}

\* Dashboard was shown, then a "Retour à l'accueil" click, then Prediction.
C22_Witness ==
    /\ Len(menu.clicks) = 3
    /\ menu.clicks[1] = "go_dashboard"
    /\ menu.clicks[2] = "back_home_1"
    /\ menu.clicks[3] = "go_prediction"
    /\ Visible = {"prediction"}


(***************************************************************************)
(* random_sample: reservoir sampling of the lines of a text file.          *)
(*                                                                         *)
(* The input file is a header line and smp.lines data lines, numbered from *)
(* 1 (the header is line 0); smp.eol tells whether the file's last line    *)
(* ends with a newline.  A file's text is the sequence of the strings      *)
(* written to it, each [line, nl]: the characters of an input line and     *)
(* whether a newline ends them.                                            *)
(***************************************************************************)
\* Largest number of data lines of the input file, and largest sample_size.
MaxSampleLines == 4
MaxSampleSize == 3

\* The output file's path holds no file.
NoFile == [exists |-> FALSE, text |-> <<>>]

\* A file left at the output path by an earlier call.
StaleFile == [exists |-> TRUE, text |-> <<[line |-> 0, nl |-> TRUE], [line |-> 1, nl |-> TRUE]>>]

\* The string the file iterator yields for line k: it keeps the line's
\* terminator, which the file's last line has only when smp.eol.
LineText(k) == [line |-> k, nl |-> k < smp.lines \/ smp.eol]

\* Lines 35-47: the output's parent directory is created, the input is opened
\* and its header read.
SampleOpen ==
    /\ smp.pc = "called"
    /\ smp' = [smp EXCEPT !.pc = "scanning", !.reservoir = <<>>, !.line_count = 0]
    /\ UNCHANGED <<raw, disk, pc, df, csv_path, save_invalid, vdf, i, valid_rows,
                   invalid_entries, first_run, imp, menu, jobs, loaded>>

\* Lines 50-57: one turn of the loop; j is random.randint(1, line_count).
SampleLine ==
    /\ smp.pc = "scanning"
    /\ smp.line_count < smp.lines
    /\ LET line_count == smp.line_count + 1
       IN IF line_count <= smp.sample_size
          THEN smp' = [smp EXCEPT !.line_count = line_count,
                                  !.reservoir = Append(@, line_count)]
          ELSE \E j \in 1..line_count :
                  smp' = [smp EXCEPT !.line_count = line_count,
                                     !.reservoir = IF j <= smp.sample_size
                                                   THEN [@ EXCEPT ![j] = line_count]
                                                   ELSE @]
    /\ UNCHANGED <<raw, disk, pc, df, csv_path, save_invalid, vdf, i, valid_rows,
                   invalid_entries, first_run, imp, menu, jobs, loaded>>

\* Mutant of SampleFinish: the output file is opened for writing and the header
\* written before the number of lines is checked.
SampleFinish_WritesFirst ==
    /\ smp.pc = "scanning"
    /\ smp.line_count = smp.lines
    /\ smp' = IF smp.line_count < smp.sample_size
              THEN [smp EXCEPT !.pc = "raised",
                               !.out = [exists |-> TRUE, text |-> <<LineText(0)>>]]
              ELSE [smp EXCEPT !.pc = "done",
                               !.out = [exists |-> TRUE,
                                        text |-> <<LineText(0)>> \o
                                                 [x \in 1..Len(smp.reservoir) |->
                                                    LineText(smp.reservoir[x])]]]
    /\ UNCHANGED <<raw, disk, pc, df, csv_path, save_invalid, vdf, i, valid_rows,
                   invalid_entries, first_run, imp, menu, jobs, loaded>>

\* Lines 59-67 after the last line: ValueError when the file has fewer lines
\* than sample_size; else the output is opened with "w", the header written
\* and the reservoir's strings after it (writelines adds no newline).
SampleFinish ==
    /\ smp.pc = "scanning"
    /\ smp.line_count = smp.lines
    /\ smp' = IF smp.line_count < smp.sample_size
              THEN [smp EXCEPT !.pc = "raised"]
              ELSE [smp EXCEPT !.pc = "done",
                               !.out = [exists |-> TRUE,
                                        text |-> <<LineText(0)>> \o
                                                 [x \in 1..Len(smp.reservoir) |->
                                                    LineText(smp.reservoir[x])]]]
    /\ UNCHANGED <<raw, disk, pc, df, csv_path, save_invalid, vdf, i, valid_rows,
                   invalid_entries, first_run, imp, menu, jobs, loaded>>

\* The calls of random_sample: an input file of up to MaxSampleLines data lines
\* that ends or not with a newline, an output path that holds a file or none.
InitSample ==
    /\ InitPipeline({NoRaw})
    /\ imp = NoImport
    /\ menu = NoMenu /\ jobs = NoJobs /\ loaded = NoLoad
    /\ smp \in {[pc |-> "called", lines |-> n, eol |-> e, sample_size |-> k, line_count |-> 0,
                  reservoir |-> <<>>, out |-> o, before |-> o] :
                   n \in 0..MaxSampleLines, e \in BOOLEAN, k \in 0..MaxSampleSize,
                   o \in {NoFile, StaleFile}}

NextSample == SampleOpen \/ SampleLine \/ SampleFinish

SpecSample == InitSample /\ [][NextSample]_vars

\* The lines of a text: the strings up to each newline joined, as the numbers
\* of the input lines whose characters they are.
RECURSIVE TextLines(_, _)
TextLines(text, open) ==
    IF text = <<>> THEN (IF open = <<>> THEN <<>> ELSE <<open>>)
    ELSE IF text[1].nl
         THEN <<Append(open, text[1].line)>> \o TextLines(Tail(text), <<>>)
         ELSE TextLines(Tail(text), Append(open, text[1].line))

\* C23: with at least sample_size data lines, the output is the header line
\* followed by exactly sample_size lines, each a data line of the input, no
\* input line twice, whatever the random choices; during the scan the
\* reservoir holds min(lines read so far, sample_size) lines.
C23_SampleOfDistinctInputLines ==
    /\ smp.pc = "scanning" =>
          Len(smp.reservoir) = (IF smp.line_count <= smp.sample_size
                                THEN smp.line_count ELSE smp.sample_size)
    /\ smp.pc = "done" =>
          LET ls == TextLines(smp.out.text, <<>>)
          IN /\ smp.lines >= smp.sample_size
             /\ Len(ls) = smp.sample_size + 1
             /\ ls[1] = <<0>>
             /\ \A k \in 2..Len(ls) : Len(ls[k]) = 1 /\ ls[k][1] \in 1..smp.lines
             /\ \A a, b \in 2..Len(ls) : a # b => ls[a] # ls[b]

\* C24: with fewer data lines than sample_size random_sample ends by raising
\* ValueError, and at every moment of the call the output path holds what it
\* held before: no file, or the earlier file unchanged.
C24_TooFewLinesRaisesOutputUntouched ==
    smp.pc # "none" /\ smp.lines < smp.sample_size =>
        /\ smp.pc \in {"called", "scanning", "raised"}
        /\ smp.out = smp.before

\* A file of two lines asked for three: raised, the earlier output still there.
C24_Witness ==
    /\ smp.pc = "raised"
    /\ smp.lines = 2 /\ smp.sample_size = 3
    /\ smp.out = StaleFile


(***************************************************************************)
(* txt_to_sqlite called a second time.                                     *)
(***************************************************************************)
\* The caller runs txt_to_sqlite again with the same txt_path, db_path,
\* table_name and chunksize, on the database the first call left.
ImportRerun ==
    /\ imp.pc = "done"
    /\ imp.runs = 1
    /\ imp' = [imp EXCEPT !.pc = "called", !.pos = 0, !.runs = 2, !.first_table = imp.table]
    /\ UNCHANGED <<raw, disk, pc, df, csv_path, save_invalid, vdf, i, valid_rows,
                   invalid_entries, first_run, aux>>

NextImportTwice ==
    \/ CleanData \/ ValidateRead \/ ValidateRow \/ ValidateReturn
    \/ ImportConnect \/ ImportWhole \/ ImportChunk \/ ImportClose \/ ImportRerun

SpecImportTwice == InitImport /\ [][NextImportTwice]_vars

\* C26: a second run on the same source file and table leaves the table with
\* the rows of a single run, without chunksize and with any positive chunksize;
\* a chunked import into an empty database gives the rows of an unchunked one,
\* in the same order.
C26_RerunLeavesSameRows ==
    imp.pc = "done" =>
        /\ imp.runs = 1 => imp.table = [x \in 1..imp.txt |-> x]
        /\ imp.runs = 2 => imp.table = imp.first_table


(***************************************************************************)
(* Several raw files.                                                      *)
(*                                                                         *)
(* jobs holds, for each raw file raw_path/<sub>/raw_<stem>.csv, the file   *)
(* and how far the calls made for it have gone: clean_data's turn of the   *)
(* loop for the file (found -> cleaned), validate_csv on its cleaned file  *)
(* up to the end of the loop over the rows (-> validated, or raised), and  *)
(* validate_csv's write and return (-> returned).  The calls for different *)
(* files are made by one caller in any order, or by one worker per file at *)
(* the same time: the steps interleave freely.  wrote is the set of paths  *)
(* the calls for the file have written.                                    *)
(***************************************************************************)
\* Largest number of data lines of each of the files.
MaxRowsFiles == 1

\* The raw files: two of the same name in two subfolders, one of another
\* department, one of another year, two named with the year first.
RawPaths ==
    << [sub |-> <<"a">>, stem |-> <<"7", "5", "_", "2", "0", "2", "4">>],
       [sub |-> <<"b">>, stem |-> <<"7", "5", "_", "2", "0", "2", "4">>],
       [sub |-> <<"a">>, stem |-> <<"9", "2", "_", "2", "0", "2", "4">>],
       [sub |-> <<"a">>, stem |-> <<"7", "5", "_", "2", "0", "2", "3">>],
       [sub |-> <<"a">>, stem |-> <<"2", "0", "2", "3", "_", "7", "5">>],
       [sub |-> <<"a">>, stem |-> <<"2", "0", "2", "4", "_", "7", "5">>] >>

\* The data lines of the files: the scenario row, a row with one failing
\* column, a row with two.
FileLines ==
    { BaseLine,
      With(BaseLine, 5, <<"5">>),
      With(With(BaseLine, 1, Minus50), 5, <<"5">>) }

\* A raw file found by rglob, nothing done for it yet.
Found(path, file) ==
    [sub |-> path.sub, stem |-> path.stem, file |-> file, pc |-> "found",
     vdf |-> NoFrame, valid_rows |-> <<>>, invalid_entries |-> <<>>, wrote |-> {}]

\* validate_csv, lines 88-102: the loop over the rows from row r on.  It ends
\* with the two lists, or at the row whose validator raises.
RECURSIVE ValidateFrom(_, _, _, _)
ValidateFrom(d, r, valid, invalid) ==
    IF r > Len(d.rows)
    THEN [pc |-> "validated", valid_rows |-> valid, invalid_entries |-> invalid]
    ELSE LET row_dict == row_to_dict(d, r)
             errors   == ValidationErrors(row_dict)
         IN IF PostalCodeRaises(row_dict)
            THEN [pc |-> "raised", valid_rows |-> valid, invalid_entries |-> invalid]
            ELSE IF errors = <<>>
            THEN ValidateFrom(d, r + 1, Append(valid, PropertyData(row_dict)), invalid)
            ELSE ValidateFrom(d, r + 1, valid, RecordInvalid(invalid, row_dict, errors))

\* clean_data, lines 58-93: the turn of the loop for one file.
CleanFile ==
    /\ \E w \in DOMAIN jobs :
          /\ jobs[w].pc = "found"
          /\ LET out == output_file(jobs[w].stem)
             IN /\ disk' = (out :> to_csv(CleanFrame(jobs[w].file))) @@ disk
                /\ jobs' = [jobs EXCEPT ![w].pc = "cleaned", ![w].wrote = @ \cup {out}]
    /\ UNCHANGED <<raw, pc, df, csv_path, save_invalid, vdf, i, valid_rows,
                   invalid_entries, first_run, imp, menu, smp, loaded>>

\* validate_csv on the file's cleaned file, lines 81-102: read, loop.
ValidateFile ==
    /\ \E w \in DOMAIN jobs :
          /\ jobs[w].pc = "cleaned"
          /\ LET d   == read_csv(disk[output_file(jobs[w].stem)])
                 res == ValidateFrom(d, 1, <<>>, <<>>)
             IN jobs' = [jobs EXCEPT ![w].pc = res.pc, ![w].vdf = d,
                                     ![w].valid_rows = res.valid_rows,
                                     ![w].invalid_entries = res.invalid_entries]
    /\ UNCHANGED <<raw, disk, pc, df, csv_path, save_invalid, vdf, i, valid_rows,
                   invalid_entries, first_run, imp, menu, smp, loaded>>

\* Mutant of SaveInvalid: invalid_rows.csv is written under cleaned_path, not
\* beside the validated file.
SaveInvalid_UnderCleanedPath ==
    /\ \E w \in DOMAIN jobs :
          /\ jobs[w].pc = "validated"
          /\ LET out_path == [dir |-> <<>>, kind |-> "invalid", stem |-> <<>>]
             IN IF jobs[w].invalid_entries # <<>>
                THEN /\ disk' = (out_path :> InvalidFile(jobs[w].vdf, jobs[w].invalid_entries))
                                @@ disk
                     /\ jobs' = [jobs EXCEPT ![w].pc = "returned", ![w].wrote = @ \cup {out_path}]
                ELSE /\ disk' = disk
                     /\ jobs' = [jobs EXCEPT ![w].pc = "returned"]
    /\ UNCHANGED <<raw, pc, df, csv_path, save_invalid, vdf, i, valid_rows,
                   invalid_entries, first_run, imp, menu, smp, loaded>>

\* validate_csv, lines 104-114, with save_invalid left at its default True.
SaveInvalid ==
    /\ \E w \in DOMAIN jobs :
          /\ jobs[w].pc = "validated"
          /\ LET out_path == invalid_path(output_file(jobs[w].stem))
             IN IF jobs[w].invalid_entries # <<>>
                THEN /\ disk' = (out_path :> InvalidFile(jobs[w].vdf, jobs[w].invalid_entries))
                                @@ disk
                     /\ jobs' = [jobs EXCEPT ![w].pc = "returned", ![w].wrote = @ \cup {out_path}]
                ELSE /\ disk' = disk
                     /\ jobs' = [jobs EXCEPT ![w].pc = "returned"]
    /\ UNCHANGED <<raw, pc, df, csv_path, save_invalid, vdf, i, valid_rows,
                   invalid_entries, first_run, imp, menu, smp, loaded>>


(***************************************************************************)
(* The readers of cleaned_path: load_data and load_csv_folder.             *)
(***************************************************************************)
\* The characters of the names of the files, in the order of their codes.
Ascii ==
    << ".", "0", "1", "2", "3", "4", "5", "6", "7", "8", "9", "_",
       "a", "b", "c", "d", "e", "f", "g", "h", "i", "j", "k", "l", "m",
       "n", "o", "p", "q", "r", "s", "t", "u", "v", "w", "x", "y", "z" >>

Code(ch) == CHOOSE k \in 1..Len(Ascii) : Ascii[k] = ch

\* a < b for two str.
RECURSIVE TextLess(_, _)
TextLess(a, b) ==
    IF b = <<>> THEN FALSE
    ELSE IF a = <<>> THEN TRUE
    ELSE IF a[1] = b[1] THEN TextLess(Tail(a), Tail(b))
    ELSE Code(a[1]) < Code(b[1])

\* f"cleaned{year}", the name of a partition's directory.
DirName(dir) ==
    <<"c", "l", "e", "a", "n", "e", "d">> \o
    (IF dir = UnknownYear
     THEN <<"u", "n", "k", "n", "o", "w", "n", "_", "y", "e", "a", "r">>
     ELSE dir)

\* The name of a file under cleaned_path.
FileName(p) ==
    IF p.kind = "cleaned"
    THEN <<"c", "l", "e", "a", "n", "e", "d", "_">> \o p.stem \o <<".", "c", "s", "v">>
    ELSE <<"i", "n", "v", "a", "l", "i", "d", "_", "r", "o", "w", "s", ".", "c", "s", "v">>

\* Path.__lt__: the paths' parts are compared one after the other as str.
PathLess(p, q) ==
    IF p.dir # q.dir THEN TextLess(DirName(p.dir), DirName(q.dir))
    ELSE TextLess(FileName(p), FileName(q))

\* sorted(paths, reverse=True)
RECURSIVE SortedReverse(_)
SortedReverse(paths) ==
    IF paths = {} THEN <<>>
    ELSE LET top == CHOOSE p \in paths : \A q \in paths \ {p} : PathLess(q, p)
         IN <<top>> \o SortedReverse(paths \ {top})

\* load_data, lines 19-26, called with the default cleaned_path; loaded.files
\* is all_files.
LoadData ==
    /\ loaded = NoLoad
    /\ LET found == SortedReverse({p \in DOMAIN disk : p.kind = "cleaned"})
       IN loaded' = IF found = <<>>
                    THEN [pc |-> "load_data_raised", files |-> <<>>, rows |-> <<>>]
                    ELSE [pc |-> "load_data", files |-> found,
                          rows |-> read_csv(disk[found[1]]).rows]
    /\ UNCHANGED <<raw, disk, pc, df, csv_path, save_invalid, vdf, i, valid_rows,
                   invalid_entries, first_run, imp, menu, smp, jobs>>

\* The columns of pd.concat(dfs): those of the first frame, then the new ones
\* of each next frame.
RECURSIVE ConcatColumns(_)
ConcatColumns(dfs) ==
    IF dfs = <<>> THEN <<>>
    ELSE LET before == ConcatColumns(SubSeq(dfs, 1, Len(dfs) - 1))
             last   == dfs[Len(dfs)].columns
         IN before \o SelectSeq(last, LAMBDA c : \A x \in 1..Len(before) : before[x] # c)

\* The rows of pd.concat(dfs, ignore_index=True): those of every frame in
\* order, NaN in the columns a frame has not, labelled anew.
RECURSIVE ConcatRows(_, _)
ConcatRows(dfs, columns) ==
    IF dfs = <<>> THEN <<>>
    ELSE LET before == ConcatRows(SubSeq(dfs, 1, Len(dfs) - 1), columns)
             d      == dfs[Len(dfs)]
             cell(r, c) ==
                 IF \E x \in 1..Len(d.columns) : d.columns[x] = columns[c]
                 THEN d.rows[r].cells[CHOOSE x \in 1..Len(d.columns) :
                                         d.columns[x] = columns[c]]
                 ELSE NA
         IN before \o [r \in 1..Len(d.rows) |->
                         [idx   |-> Len(before) + r - 1,
                          cells |-> [c \in 1..Len(columns) |-> cell(r, c)]]]

\* load_csv_folder, lines 53-57, called with the directory of a partition:
\* csv_files (loaded.files) is every name of os.listdir that ends with ".csv",
\* in the order the system lists them.
LoadCsvFolder ==
    /\ loaded = NoLoad
    /\ \E folder \in {p.dir : p \in DOMAIN disk} :
          LET names == {p \in DOMAIN disk : p.dir = folder}
          IN \E csv_files \in {f \in [1..Cardinality(names) -> names] :
                                  \A a, b \in DOMAIN f : a # b => f[a] # f[b]} :
                LET dfs == [k \in DOMAIN csv_files |-> read_csv(disk[csv_files[k]])]
                IN loaded' = [pc |-> "load_csv_folder", files |-> csv_files,
                              rows |-> ConcatRows(dfs, ConcatColumns(dfs))]
    /\ UNCHANGED <<raw, disk, pc, df, csv_path, save_invalid, vdf, i, valid_rows,
                   invalid_entries, first_run, imp, menu, smp, jobs>>

\* The pairs of raw files found together under raw_path, as their places in
\* RawPaths: the same name in two subfolders, two departments of a year, two
\* years, a file named with the year last and one with the year first, two
\* files named with the year first.
RawPairs == {<<1, 2>>, <<1, 3>>, <<1, 4>>, <<1, 5>>, <<5, 6>>}

\* Two raw files of up to MaxRowsFiles lines under raw_path, nothing under
\* cleaned_path; the pipeline's own file is absent.
InitFiles ==
    /\ InitPipeline({NoRaw})
    /\ imp = NoImport
    /\ menu = NoMenu /\ smp = NoSample /\ loaded = NoLoad
    /\ jobs \in {<<Found(RawPaths[pair[1]], RawFile(PlainHeader, fa)),
                   Found(RawPaths[pair[2]], RawFile(PlainHeader, fb))>> :
                    pair \in RawPairs,
                    fa \in UNION {[1..n -> FileLines] : n \in 0..MaxRowsFiles},
                    fb \in UNION {[1..n -> FileLines] : n \in 0..MaxRowsFiles}}

NextFiles == CleanFile \/ ValidateFile \/ SaveInvalid

\* The calls of clean_data and validate_csv for two raw files.
SpecFiles == InitFiles /\ [][NextFiles]_vars

NextReaders == CleanFile \/ ValidateFile \/ SaveInvalid \/ LoadData \/ LoadCsvFolder

\* The same, and one call of load_data or load_csv_folder at any moment.
SpecReaders == InitFiles /\ [][NextReaders]_vars


\* The 4-digit years a raw file's name contains.
YearsIn(stem) ==
    {SubSeq(stem, j, j + 3) :
        j \in {x \in 1..(Len(stem) - 3) : \A y \in x..(x + 3) : stem[y] \in Digits}}

\* The name ends, before ".csv", in four digits.
EndsInYear(stem) ==
    Len(stem) >= 4 /\ \A y \in (Len(stem) - 3)..Len(stem) : stem[y] \in Digits

\* What is under cleaned_path, holding d before, after clean_data and then
\* validate_csv have run from start to end for one raw file alone.
RunAlone(d, job) ==
    LET out     == output_file(job.stem)
        cleaned == (out :> to_csv(CleanFrame(job.file))) @@ d
        frame   == read_csv(cleaned[out])
        res     == ValidateFrom(frame, 1, <<>>, <<>>)
    IN IF res.pc = "validated" /\ res.invalid_entries # <<>>
       THEN (invalid_path(out) :> InvalidFile(frame, res.invalid_entries)) @@ cleaned
       ELSE cleaned

\* The run for the file u alone, then the run for the file w alone.
OneAfterTheOther(u, w) == RunAlone(RunAlone(NoDisk, jobs[u]), jobs[w])

\* Every call made for the two files has ended.
AllEnded == \A w \in DOMAIN jobs : jobs[w].pc \in {"returned", "raised"}

\* C21 as stated: the runs for two files whose names hold different years never
\* write the same location, whatever the interleaving, and leave what the
\* two runs leave when made one after the other, in either order.
C21_DifferentYearsNoSharedLocation ==
    /\ jobs # NoJobs
    /\ YearsIn(jobs[1].stem) # {} /\ YearsIn(jobs[2].stem) # {}
    /\ YearsIn(jobs[1].stem) \cap YearsIn(jobs[2].stem) = {}
    => /\ jobs[1].wrote \cap jobs[2].wrote = {}
       /\ AllEnded => disk = OneAfterTheOther(1, 2) /\ disk = OneAfterTheOther(2, 1)

\* C21 as amended: the same for two files whose names end, before ".csv", in
\* different 4-digit years.
C21_DifferentEndYearsNoSharedLocation ==
    /\ jobs # NoJobs
    /\ EndsInYear(jobs[1].stem) /\ EndsInYear(jobs[2].stem)
    /\ \E y \in 0..3 : jobs[1].stem[Len(jobs[1].stem) - y] # jobs[2].stem[Len(jobs[2].stem) - y]
    => /\ jobs[1].wrote \cap jobs[2].wrote = {}
       /\ AllEnded => disk = OneAfterTheOther(1, 2) /\ disk = OneAfterTheOther(2, 1)

\* The runs for raw_75_2024.csv and raw_75_2023.csv have ended, each left its
\* cleaned file and its invalid rows.
C21_Witness ==
    /\ jobs # NoJobs
    /\ AllEnded
    /\ jobs[1].stem[Len(jobs[1].stem)] = "4" /\ jobs[2].stem[Len(jobs[2].stem)] = "3"
    /\ EndsInYear(jobs[1].stem) /\ EndsInYear(jobs[2].stem)
    /\ jobs[1].invalid_entries # <<>> /\ jobs[2].invalid_entries # <<>>
    /\ Cardinality(jobs[1].wrote) = 2 /\ Cardinality(jobs[2].wrote) = 2
    /\ Cardinality(DOMAIN disk) = 4


\* C25: load_data loads a file of the latest extraction year among the
\* cleaned_*.csv files it finds, files of the unknown_year partition being among
\* those it finds; with no file it raises FileNotFoundError.
C25_LoadsLatestYear ==
    /\ loaded.pc = "load_data_raised" => loaded.files = <<>>
    /\ loaded.pc = "load_data" =>
          LET years == {loaded.files[k].dir : k \in 1..Len(loaded.files)} \ {UnknownYear}
          IN /\ loaded.files # <<>>
             /\ years # {} =>
                   /\ loaded.files[1].dir \in years
                   /\ \A y \in years : DigitsToInt(y, 4) <= DigitsToInt(loaded.files[1].dir, 4)


\* The partition's invalid store for the file of a job, and the lines
\* validate_csv makes of the job's invalid entries.
StoreOf(w) == invalid_path(output_file(jobs[w].stem))
InvalidLines(w) == InvalidFile(jobs[w].vdf, jobs[w].invalid_entries).lines

\* C27: once validate_csv has returned for two different cleaned files of the
\* same partition directory, in either order, the partition's invalid store
\* holds the invalid rows of both.
C27_InvalidStoreKeepsBothFiles ==
    /\ jobs # NoJobs
    /\ output_file(jobs[1].stem).dir = output_file(jobs[2].stem).dir
    /\ output_file(jobs[1].stem) # output_file(jobs[2].stem)
    /\ jobs[1].pc = "returned" /\ jobs[2].pc = "returned"
    => \A w \in DOMAIN jobs :
          jobs[w].invalid_entries # <<>> =>
              /\ StoreOf(w) \in DOMAIN disk
              /\ \A k \in 1..Len(InvalidLines(w)) :
                    \E x \in 1..Len(disk[StoreOf(w)].lines) :
                        disk[StoreOf(w)].lines[x] = InvalidLines(w)[k]

\* C28: when validate_csv returns having classified no row Invalid, the
\* invalid store of the file's directory holds no invalid row, whatever an
\* earlier run wrote there.
C28_NothingInvalidLeavesEmptyStore ==
    [][\A w \in DOMAIN jobs :
          jobs[w].pc = "validated" /\ jobs'[w].pc = "returned" /\ jobs[w].invalid_entries = <<>>
          => \/ StoreOf(w) \notin DOMAIN disk'
             \/ disk'[StoreOf(w)].lines = <<>>]_vars

\* C30: once clean_data's loop has gone through both raw files, which are
\* different files, their outputs are different files and each holds the cleaned
\* rows of its source.
C30_DistinctSourcesDistinctOutputs ==
    /\ jobs # NoJobs
    /\ <<jobs[1].sub, jobs[1].stem>> # <<jobs[2].sub, jobs[2].stem>>
    /\ \A w \in DOMAIN jobs : jobs[w].pc # "found"
    => /\ output_file(jobs[1].stem) # output_file(jobs[2].stem)
       /\ \A w \in DOMAIN jobs :
             /\ output_file(jobs[w].stem) \in DOMAIN disk
             /\ disk[output_file(jobs[w].stem)] = to_csv(CleanFrame(jobs[w].file))

\* C29: the files load_csv_folder reads from a partition's folder are the
\* partition's cleaned files and no file of invalid rows, and it returns a row
\* for every line of the files it reads.
C29_TrainingRowsOnlyFromCleanedFiles ==
    loaded.pc = "load_csv_folder" =>
        /\ \A k \in 1..Len(loaded.files) : loaded.files[k].kind = "cleaned"
        /\ \A a, b \in 1..Len(loaded.rows) : a < b => loaded.rows[a].idx < loaded.rows[b].idx

=============================================================================
